---- MODULE Spec2Model ----
(***************************************************************************)
(* Model of the products backend (bananichdev/products): the relational    *)
(* store and the service layer over it (customers, mechanics, autoservices *)
(* with their AutoserviceUser permission rows, provided maintenance and    *)
(* its country / vehicle-brand associations), and the HTTP handlers of the *)
(* maintenance controller.                                                 *)
(*                                                                         *)
(* A table with a single-column primary key is a function from the stored  *)
(* primary keys to rows; a table with a composite primary key is a bag of  *)
(* rows, so that a duplicate row is representable and its absence is the   *)
(* work of the primary-key check of the insert.  A column value is an      *)
(* optional: None is Python's None / SQL NULL, Some(v) a value.            *)
(***************************************************************************)
EXTENDS Integers, FiniteSets, Sequences, Bags, TLC

\* ------------------------------------------------------------------ bounds
MaxUsers == 2       \* users (uids 1..MaxUsers)
MaxIds == 2         \* primary keys per table (1..MaxIds)

\* ------------------------------------------------------------- optionals
None == {}
Some(v) == {v}
Val(o) == CHOOSE v \in o : TRUE
Opt(S) == {None} \cup {Some(v) : v \in S}

Uids == 1..MaxUsers
\* The primary key and uid a transient entity carries when it reaches a
\* service: neither when the DTO built it (the Post/Patch DTOs exclude the id
\* and mark uid read-only), both when the caller built it (as the tests do);
\* the uid carried need not be the requester's.
Headers(Ids) == {<<None, None>>} \cup {<<Some(i), Some(1)>> : i \in Ids}
CustomerIds == 1..MaxIds
MechanicIds == 1..MaxIds

VARIABLES
    customers,                      \* table customers: customer_id -> row
    mechanics,                      \* table mechanics: mechanic_id -> row
    autoservices,                   \* table autoservices: autoservice_id -> row
    autoservice_users,              \* table autoservice_users: bag of rows, key (uid, autoservice_id)
    provided_maintenance,           \* table provided_maintenance: provided_maintenance_id -> row
    country_associations,           \* table provided_maintenance_country_association: bag of rows
    vehicle_brand_associations,     \* table provided_maintenance_vehicle_brand_association: bag of rows
    vehicles,                       \* table vehicles: vehicle_id -> row
    countries,                      \* table countries: country_id -> row
    vehicle_brands,                 \* table vehicle_brands: vehicle_brand_id -> row
    vehicle_models,                 \* table vehicle_models: vehicle_model_id -> row
    vehicle_generations,            \* table vehicle_generations: vehicle_generation_id -> row
    provided_maintenance_types,     \* table provided_maintenance_types: provided_maintenance_type_id -> row
    service,                        \* the service a behaviour exercises (each service has its own repository)
    pending,                        \* requests between their checks and their insert: bag of requests
    cookies,                        \* the cookies the client holds: key -> value
    now,                            \* the time, in ticks since the application imported its modules
    blacklist_store,                \* the store "blacklist_store": key -> value
    result                          \* outcome of the last call: what was called, by whom, what it raised / returned

profileTables == <<customers, mechanics>>
autoserviceTables == <<autoservices, autoservice_users>>
maintenanceTables == <<provided_maintenance, country_associations, vehicle_brand_associations>>
referenceTables ==
    <<vehicles, countries, vehicle_brands, vehicle_models, vehicle_generations, provided_maintenance_types>>
store == <<profileTables, autoserviceTables, maintenanceTables, referenceTables>>

control == <<service, pending, cookies, now, blacklist_store>>

\* The time at which the application imports its modules, and with them
\* executes the class bodies of the models.
ImportTime == 0

\* Ticks a behaviour lets pass.
MaxNow == 2

vars == <<store, control, result>>

\* The empty table.
EmptyTable == <<>>

\* A client that holds no cookie.
NoCookies == <<>>

\* What a call that has not happened looks like.
NoResult == [op |-> "none", uid |-> 0, id |-> 0, err |-> "none", ret |-> None]

Outcome(op, uid, id, err, ret) == [op |-> op, uid |-> uid, id |-> id, err |-> err, ret |-> ret]

\* ------------------------------------------------------ generic ORM pieces
\* A patch method without the "if value is not None" filter.
UpdateDataWithNulls(entity, exclude) == [a \in DOMAIN entity \ exclude |-> entity[a]]

\* to_dict(exclude=...) followed by the "if value is not None" filter of the
\* patch methods: the attributes of the entity that are not excluded and
\* carry a value.
UpdateData(entity, exclude) ==
    [a \in {b \in DOMAIN entity \ exclude : entity[b] # None} |-> entity[a]]

\* repository.update(data, item_id): every key of data that is a column of
\* the row is assigned, the other columns keep their value.
ApplyUpdate(row, data) ==
    [a \in DOMAIN row |-> IF a \in DOMAIN data THEN data[a] ELSE row[a]]

\* The table with one more row under key id.
Put(table, id, row) ==
    [k \in DOMAIN table \cup {id} |-> IF k = id THEN row ELSE table[k]]

\* Drop the primary key attribute: the key is the domain of the table.
RowOf(entity, key) == [a \in DOMAIN entity \ {key} |-> entity[a]]

\* Ids are opaque, so which unused one uuid7() yields is immaterial: the
\* least is taken (none when every id is used).
Fresh(unused) == {i \in unused : \A j \in unused : i <= j}

\* The entity as loaded from the table.
Load(table, id, key) ==
    [a \in DOMAIN table[id] \cup {key} |-> IF a = key THEN Some(id) ELSE table[id][a]]

\* ---------------------------------------------------------------- Customer
\* Transient Customer objects handed to the service: the patchable columns
\* as a few representative objects (nothing set, everything set, name only).
CustomerProfiles == {
    [name |-> None, city |-> None],
    [name |-> Some("Ann"), city |-> Some("Omsk")],
    [name |-> Some("Bob"), city |-> None] }

CustomerEntity(customer_id, uid, p) ==
    [customer_id |-> customer_id, uid |-> uid, name |-> p.name, city |-> p.city]

CustomerEntities ==
    {CustomerEntity(h[1], h[2], p) : h \in Headers(CustomerIds), p \in CustomerProfiles}

\* A customers table without the UNIQUE index of uid.
CustomerInsertViolatesWithoutUniqueUid(table, customer) ==
    \/ Val(customer.customer_id) \in DOMAIN table
    \/ customer.name = None
    \/ customer.uid = None

\* Customer.__table__: primary key, NOT NULL name and uid, UNIQUE uid.
CustomerInsertViolates(table, customer) ==
    \/ Val(customer.customer_id) \in DOMAIN table
    \/ customer.name = None
    \/ customer.uid = None
    \/ \E k \in DOMAIN table : table[k].uid = customer.uid

get_customer_by_customer_id(table, customer_id) ==
    IF customer_id \in DOMAIN table
    THEN [err |-> "ok", ret |-> Some(Load(table, customer_id, "customer_id"))]
    ELSE [err |-> "CustomerNotFoundError", ret |-> None]

\* An exclude set of patch_customer without "uid".
CustomerPatchExcludeWithoutUid == {"customer_id", "vehicles", "created_at", "updated_at"}

\* The exclude set of patch_customer.
CustomerPatchExclude == {"customer_id", "vehicles", "uid", "created_at", "updated_at"}

\* A patch_customer that lets every requester through.
CustomerBelongsToAnotherUserSkipped(customer, uid) == FALSE

\* CustomerService.patch_customer's ownership test.
CustomerBelongsToAnotherUser(customer, uid) == customer.uid # Some(uid)

patch_customer(table, customer_id, changed_customer, uid) ==
    LET update_data == UpdateData(changed_customer, CustomerPatchExclude)
        got == get_customer_by_customer_id(table, customer_id)
    IN  IF got.err # "ok"
        THEN [err |-> got.err, ret |-> None, table |-> table]
        ELSE IF CustomerBelongsToAnotherUser(Val(got.ret), uid)
        THEN [err |-> "CustomerBelongsToAnotherUserError", ret |-> None, table |-> table]
        ELSE LET row == ApplyUpdate(table[customer_id], update_data)
                 new == Put(table, customer_id, row)
             IN  [err |-> "ok", ret |-> Some(Load(new, customer_id, "customer_id")), table |-> new]

\* A create_customer without the assignment customer.uid = user.uid.
create_customer_keeps_uid(table, customer, uid) ==
    IF \E k \in DOMAIN table : table[k].uid = Some(uid)
    THEN LET k == CHOOSE k \in DOMAIN table : table[k].uid = Some(uid)
         IN  [err |-> "ok", ret |-> Some(Load(table, k, "customer_id")), table |-> table]
    ELSE IF CustomerInsertViolates(table, customer)
         THEN [err |-> "IntegrityError", ret |-> None, table |-> table]
         ELSE [err |-> "ok", ret |-> Some(customer),
               table |-> Put(table, Val(customer.customer_id), RowOf(customer, "customer_id"))]

\* A create_customer without the look-up of the user's customer.
create_customer_always_inserts(table, customer, uid) ==
    LET owned == [customer EXCEPT !.uid = Some(uid)]
    IN  IF CustomerInsertViolates(table, owned)
        THEN [err |-> "IntegrityError", ret |-> None, table |-> table]
        ELSE [err |-> "ok", ret |-> Some(owned),
              table |-> Put(table, Val(owned.customer_id), RowOf(owned, "customer_id"))]

\* CustomerService.create_customer
create_customer(table, customer, uid) ==
    IF \E k \in DOMAIN table : table[k].uid = Some(uid)
    THEN LET k == CHOOSE k \in DOMAIN table : table[k].uid = Some(uid)
         IN  [err |-> "ok", ret |-> Some(Load(table, k, "customer_id")), table |-> table]
    ELSE LET owned == [customer EXCEPT !.uid = Some(uid)]
         IN  IF CustomerInsertViolates(table, owned)
             THEN [err |-> "IntegrityError", ret |-> None, table |-> table]
             ELSE LET new == Put(table, Val(owned.customer_id), RowOf(owned, "customer_id"))
                  IN  [err |-> "ok", ret |-> Some(owned), table |-> new]

\* A Customer built without customer_id gets uuid7() as default: an id that
\* no stored row has.
WithCustomerId(customer, unused) ==
    IF customer.customer_id = None
    THEN {[customer EXCEPT !.customer_id = Some(fresh)] : fresh \in unused}
    ELSE {customer}

GetCustomer(customer_id) ==
    LET out == get_customer_by_customer_id(customers, customer_id)
    IN  /\ service = "CustomerService"
        /\ result' = Outcome("get_customer_by_customer_id", 0, customer_id, out.err, out.ret)
        /\ UNCHANGED <<store, control>>

CreateCustomer(uid, customer) ==
    \E given \in WithCustomerId(customer, Fresh(CustomerIds \ DOMAIN customers)) :
        LET out == create_customer(customers, given, uid)
        IN  /\ service = "CustomerService"
            /\ customers' = out.table
            /\ result' = Outcome("create_customer", uid, Val(given.customer_id), out.err, out.ret)
            /\ UNCHANGED <<mechanics, autoserviceTables, maintenanceTables, referenceTables, control>>

PatchCustomer(uid, customer_id, changed_customer) ==
    LET out == patch_customer(customers, customer_id, changed_customer, uid)
    IN  /\ service = "CustomerService"
        /\ customers' = out.table
        /\ result' = Outcome("patch_customer", uid, customer_id, out.err, out.ret)
        /\ UNCHANGED <<mechanics, autoserviceTables, maintenanceTables, referenceTables, control>>

\* ---------------------------------------------------------------- Mechanic
\* The patchable columns of a transient Mechanic, as a few representative
\* objects: nothing set, a complete profile, and two partial ones.
MechanicProfiles == {
    [name |-> None, description |-> None, city |-> None, address |-> None,
     lon |-> None, lat |-> None, private |-> None, mobile |-> None],
    [name |-> Some("Ann"), description |-> Some("tyres"), city |-> Some("Omsk"), address |-> Some("Lenina 1"),
     lon |-> Some(73), lat |-> Some(55), private |-> Some(TRUE), mobile |-> Some(FALSE)],
    [name |-> Some("Bob"), description |-> None, city |-> None, address |-> None,
     lon |-> None, lat |-> None, private |-> Some(FALSE), mobile |-> Some(TRUE)],
    [name |-> None, description |-> Some("engine"), city |-> Some("Tomsk"), address |-> Some("Mira 2"),
     lon |-> Some(85), lat |-> Some(56), private |-> None, mobile |-> None] }

MechanicEntity(mechanic_id, uid, p) ==
    [mechanic_id |-> mechanic_id, uid |-> uid, name |-> p.name, description |-> p.description,
     city |-> p.city, address |-> p.address, lon |-> p.lon, lat |-> p.lat,
     private |-> p.private, mobile |-> p.mobile]

\* Transient Mechanic objects handed to the service.
MechanicEntities ==
    {MechanicEntity(h[1], h[2], p) : h \in Headers(MechanicIds), p \in MechanicProfiles}

\* Mechanic.__table__: primary key, NOT NULL name, city, private, mobile and
\* uid, UNIQUE uid.
MechanicInsertViolates(table, mechanic) ==
    \/ Val(mechanic.mechanic_id) \in DOMAIN table
    \/ \E a \in {"name", "city", "private", "mobile", "uid"} : mechanic[a] = None
    \/ \E k \in DOMAIN table : table[k].uid = mechanic.uid

\* MechanicService.validate_mechanic_owner, and the same test inlined in
\* patch_mechanic and _get_provided_maintenance_with_owner.
MechanicBelongsToAnotherUser(mechanic, uid) == mechanic.uid # Some(uid)

get_mechanic_by_mechanic_id(table, mechanic_id) ==
    IF mechanic_id \in DOMAIN table
    THEN [err |-> "ok", ret |-> Some(Load(table, mechanic_id, "mechanic_id"))]
    ELSE [err |-> "MechanicNotFoundError", ret |-> None]

\* An exclude set of patch_mechanic without "uid".
MechanicPatchExcludeWithoutUid ==
    {"mechanic_id", "autoservices", "provided_maintenance", "created_at", "updated_at"}

\* The exclude set of patch_mechanic.
MechanicPatchExclude ==
    {"mechanic_id", "uid", "autoservices", "provided_maintenance", "created_at", "updated_at"}

patch_mechanic(table, mechanic_id, changed_mechanic, uid) ==
    LET update_data == UpdateData(changed_mechanic, MechanicPatchExclude)
        got == get_mechanic_by_mechanic_id(table, mechanic_id)
    IN  IF got.err # "ok"
        THEN [err |-> got.err, ret |-> None, table |-> table]
        ELSE IF MechanicBelongsToAnotherUser(Val(got.ret), uid)
        THEN [err |-> "MechanicBelongsToAnotherUserError", ret |-> None, table |-> table]
        ELSE LET row == ApplyUpdate(table[mechanic_id], update_data)
                 new == Put(table, mechanic_id, row)
             IN  [err |-> "ok", ret |-> Some(Load(new, mechanic_id, "mechanic_id")), table |-> new]

\* MechanicService.create_mechanic
create_mechanic(table, mechanic, uid) ==
    IF \E k \in DOMAIN table : table[k].uid = Some(uid)
    THEN LET k == CHOOSE k \in DOMAIN table : table[k].uid = Some(uid)
         IN  [err |-> "ok", ret |-> Some(Load(table, k, "mechanic_id")), table |-> table]
    ELSE LET owned == [mechanic EXCEPT !.uid = Some(uid)]
         IN  IF MechanicInsertViolates(table, owned)
             THEN [err |-> "IntegrityError", ret |-> None, table |-> table]
             ELSE LET new == Put(table, Val(owned.mechanic_id), RowOf(owned, "mechanic_id"))
                  IN  [err |-> "ok", ret |-> Some(owned), table |-> new]

\* A Mechanic built without mechanic_id gets uuid7() as default.
WithMechanicId(mechanic, unused) ==
    IF mechanic.mechanic_id = None
    THEN {[mechanic EXCEPT !.mechanic_id = Some(fresh)] : fresh \in unused}
    ELSE {mechanic}

GetMechanic(mechanic_id) ==
    LET out == get_mechanic_by_mechanic_id(mechanics, mechanic_id)
    IN  /\ service = "MechanicService"
        /\ result' = Outcome("get_mechanic_by_mechanic_id", 0, mechanic_id, out.err, out.ret)
        /\ UNCHANGED <<store, control>>

CreateMechanic(uid, mechanic) ==
    \E given \in WithMechanicId(mechanic, Fresh(MechanicIds \ DOMAIN mechanics)) :
        LET out == create_mechanic(mechanics, given, uid)
        IN  /\ service = "MechanicService"
            /\ mechanics' = out.table
            /\ result' = Outcome("create_mechanic", uid, Val(given.mechanic_id), out.err, out.ret)
            /\ UNCHANGED <<customers, autoserviceTables, maintenanceTables, referenceTables, control>>

PatchMechanic(uid, mechanic_id, changed_mechanic) ==
    LET out == patch_mechanic(mechanics, mechanic_id, changed_mechanic, uid)
    IN  /\ service = "MechanicService"
        /\ mechanics' = out.table
        /\ result' = Outcome("patch_mechanic", uid, mechanic_id, out.err, out.ret)
        /\ UNCHANGED <<customers, autoserviceTables, maintenanceTables, referenceTables, control>>

\* -------------------------------------------------------------- Autoservice
AutoserviceIds == 1..MaxIds

\* AutoserviceUserPermissions
autoservice_manage == "autoservice:manage"
autoservice_manage_provided_maintenance == "autoservice:manage_provided_maintenance"
AutoserviceUserPermissions == {autoservice_manage, autoservice_manage_provided_maintenance}

AutoserviceUser(uid, autoservice_id, permissions) ==
    [uid |-> uid, autoservice_id |-> autoservice_id, permissions |-> permissions]

\* The columns of a transient Autoservice: nothing set, and two complete
\* objects that differ in every column.
AutoserviceNothing ==
    [name |-> None, description |-> None, itn |-> None, psrn |-> None, city |-> None,
     address |-> None, lon |-> None, lat |-> None]
AutoserviceA ==
    [name |-> Some("Garage"), description |-> Some("body work"), itn |-> Some("1234567890"),
     psrn |-> Some("1234567890123"), city |-> Some("Omsk"), address |-> Some("Lenina 1"),
     lon |-> Some(73), lat |-> Some(55)]
AutoserviceB ==
    [name |-> Some("Motor"), description |-> Some("engines"), itn |-> Some("123456789012"),
     psrn |-> Some("3210987654321"), city |-> Some("Tomsk"), address |-> Some("Mira 2"),
     lon |-> Some(85), lat |-> Some(56)]

AutoserviceEntity(autoservice_id, p) ==
    [autoservice_id |-> autoservice_id, name |-> p.name, description |-> p.description,
     itn |-> p.itn, psrn |-> p.psrn, city |-> p.city, address |-> p.address,
     lon |-> p.lon, lat |-> p.lat]

\* Transient Autoservice objects handed to create_autoservice.
NewAutoservices ==
    {AutoserviceEntity(i, p) : i \in Opt(AutoserviceIds), p \in {AutoserviceNothing, AutoserviceA}}

\* Transient Autoservice objects handed to patch_autoservice.
ChangedAutoservices ==
    {AutoserviceEntity(i, p) : i \in Opt(AutoserviceIds), p \in {AutoserviceNothing, AutoserviceB}}

\* Autoservice.city: default="".
AutoserviceDefaults(autoservice) ==
    IF autoservice.city = None THEN [autoservice EXCEPT !.city = Some("")] ELSE autoservice

\* itn: String(12), psrn: String(13)
AutoserviceColumnLength == [itn |-> 12, psrn |-> 13]

\* Autoservice.__table__: primary key, NOT NULL name, itn, psrn, city, address,
\* and the lengths of the itn and psrn columns.
AutoserviceInsertViolates(table, autoservice) ==
    \/ Val(autoservice.autoservice_id) \in DOMAIN table
    \/ \E a \in {"name", "itn", "psrn", "city", "address"} : autoservice[a] = None
    \/ \E a \in DOMAIN AutoserviceColumnLength : Len(Val(autoservice[a])) > AutoserviceColumnLength[a]

\* AutoserviceUser.__table__: primary key (uid, autoservice_id), foreign key
\* autoservice_id -> autoservices.
AutoserviceUserInsertViolates(table, parents, row) ==
    \/ \E r \in BagToSet(table) : r.uid = row.uid /\ r.autoservice_id = row.autoservice_id
    \/ row.autoservice_id \notin DOMAIN parents

\* get_one_or_none over a bag table: how many rows of the table the rows
\* that match amount to.
MatchCount(table, matching) == BagCardinality([r \in matching |-> table[r]])

get_autoservice_user_by_uid_and_autoservice_id(table, uid, autoservice_id) ==
    LET matching == {r \in BagToSet(table) : r.uid = uid /\ r.autoservice_id = autoservice_id}
        n == MatchCount(table, matching)
    IN  IF n = 0 THEN [err |-> "AutoserviceUserNotFoundError", ret |-> None]
        ELSE IF n = 1 THEN [err |-> "ok", ret |-> Some(CHOOSE r \in matching : TRUE)]
        ELSE [err |-> "MultipleResultsFoundError", ret |-> None]

\* An owner row that grants autoservice:manage only.
OwnerPermissionsManageOnly == {autoservice_manage}

\* AutoserviceUserService.create_autoservice_owner: the row it builds.
OwnerPermissions == AutoserviceUserPermissions

create_autoservice_owner(table, parents, autoservice, uid) ==
    LET autoservice_user == AutoserviceUser(uid, Val(autoservice.autoservice_id), OwnerPermissions)
    IN  IF AutoserviceUserInsertViolates(table, parents, autoservice_user)
        THEN [err |-> "IntegrityError", ret |-> None, users |-> table]
        ELSE [err |-> "ok", ret |-> Some(autoservice_user),
              users |-> table (+) SetToBag({autoservice_user})]

get_autoservice_by_autoservice_id(table, autoservice_id) ==
    IF autoservice_id \in DOMAIN table
    THEN [err |-> "ok", ret |-> Some(Load(table, autoservice_id, "autoservice_id"))]
    ELSE [err |-> "AutoserviceNotFoundError", ret |-> None]

\* BaseAutoserviceService.create_autoservice
base_create_autoservice(table, autoservice) ==
    LET filled == AutoserviceDefaults(autoservice)
    IN  IF AutoserviceInsertViolates(table, filled)
        THEN [err |-> "IntegrityError", ret |-> None, table |-> table]
        ELSE [err |-> "ok", ret |-> Some(filled),
              table |-> Put(table, Val(filled.autoservice_id), RowOf(filled, "autoservice_id"))]

\* AutoserviceService.create_autoservice: both inserts go through the one
\* session of the request, which is committed only if the call returns.
create_autoservice(table, users, autoservice, uid) ==
    LET created == base_create_autoservice(table, autoservice)
    IN  IF created.err # "ok"
        THEN [err |-> created.err, ret |-> None, table |-> table, users |-> users]
        ELSE LET owner == create_autoservice_owner(users, created.table, Val(created.ret), uid)
             IN  IF owner.err # "ok"
                 THEN [err |-> owner.err, ret |-> None, table |-> table, users |-> users]
                 ELSE [err |-> "ok", ret |-> created.ret, table |-> created.table, users |-> owner.users]

\* A validation that asks for autoservice:manage instead.
LacksManageProvidedMaintenanceAsksManage(autoservice_user) ==
    autoservice_manage \notin autoservice_user.permissions

\* The permission test of validate_autoservice_manage_provided_maintenance_permissions.
LacksManageProvidedMaintenance(autoservice_user) ==
    autoservice_manage_provided_maintenance \notin autoservice_user.permissions

\* A validation that never raises.
validate_autoservice_manage_provided_maintenance_permissions_never_raises(users, autoservice, uid) ==
    [err |-> "ok"]

\* AutoserviceService.validate_autoservice_manage_provided_maintenance_permissions
validate_autoservice_manage_provided_maintenance_permissions(users, autoservice, uid) ==
    LET got == get_autoservice_user_by_uid_and_autoservice_id(users, uid, Val(autoservice.autoservice_id))
    IN  IF got.err # "ok" THEN [err |-> got.err]
        ELSE IF LacksManageProvidedMaintenance(Val(got.ret))
        THEN [err |-> "AutoserviceUserDoesntHavePermissionsError"]
        ELSE [err |-> "ok"]

\* The exclude set of patch_autoservice, as written: "latmechanics" is one
\* string, so neither "lat" nor "mechanics" is excluded.
AutoservicePatchExclude ==
    {"autoservice_id", "itn", "psrn", "address", "lon", "latmechanics", "users",
     "provided_maintenance", "created_at", "updated_at"}

\* A patch_autoservice that accepts any AutoserviceUser row.
LacksManageSkipped(autoservice_user) == FALSE

\* The permission test of patch_autoservice.
LacksManage(autoservice_user) == autoservice_manage \notin autoservice_user.permissions

\* A patch_autoservice that looks for the AutoserviceUser row before it looks
\* for the autoservice.
patch_autoservice_permission_first(table, users, autoservice_id, uid, changed_autoservice) ==
    LET update_data == UpdateData(changed_autoservice, AutoservicePatchExclude)
        au == get_autoservice_user_by_uid_and_autoservice_id(users, uid, autoservice_id)
        got == get_autoservice_by_autoservice_id(table, autoservice_id)
    IN  IF au.err # "ok"
        THEN [err |-> au.err, ret |-> None, table |-> table]
        ELSE IF LacksManage(Val(au.ret))
        THEN [err |-> "AutoserviceUserDoesntHavePermissionsError", ret |-> None, table |-> table]
        ELSE IF got.err # "ok"
        THEN [err |-> got.err, ret |-> None, table |-> table]
        ELSE LET new == Put(table, autoservice_id, ApplyUpdate(table[autoservice_id], update_data))
             IN  [err |-> "ok", ret |-> Some(Load(new, autoservice_id, "autoservice_id")), table |-> new]

\* AutoserviceService.patch_autoservice
patch_autoservice(table, users, autoservice_id, uid, changed_autoservice) ==
    LET update_data == UpdateData(changed_autoservice, AutoservicePatchExclude)
        got == get_autoservice_by_autoservice_id(table, autoservice_id)
    IN  IF got.err # "ok"
        THEN [err |-> got.err, ret |-> None, table |-> table]
        ELSE LET au == get_autoservice_user_by_uid_and_autoservice_id(
                           users, uid, Val(Val(got.ret).autoservice_id))
             IN  IF au.err # "ok"
                 THEN [err |-> au.err, ret |-> None, table |-> table]
                 ELSE IF LacksManage(Val(au.ret))
                 THEN [err |-> "AutoserviceUserDoesntHavePermissionsError", ret |-> None, table |-> table]
                 ELSE LET new == Put(table, autoservice_id, ApplyUpdate(table[autoservice_id], update_data))
                      IN  [err |-> "ok", ret |-> Some(Load(new, autoservice_id, "autoservice_id")),
                           table |-> new]

\* An Autoservice built without autoservice_id gets uuid7() as default.
WithAutoserviceId(autoservice, unused) ==
    IF autoservice.autoservice_id = None
    THEN {[autoservice EXCEPT !.autoservice_id = Some(fresh)] : fresh \in unused}
    ELSE {autoservice}

GetAutoservice(autoservice_id) ==
    LET out == get_autoservice_by_autoservice_id(autoservices, autoservice_id)
    IN  /\ service = "AutoserviceService"
        /\ result' = Outcome("get_autoservice_by_autoservice_id", 0, autoservice_id, out.err, out.ret)
        /\ UNCHANGED <<store, control>>

CreateAutoservice(uid, autoservice) ==
    \E given \in WithAutoserviceId(autoservice, Fresh(AutoserviceIds \ DOMAIN autoservices)) :
        LET out == create_autoservice(autoservices, autoservice_users, given, uid)
        IN  /\ service = "AutoserviceService"
            /\ autoservices' = out.table
            /\ autoservice_users' = out.users
            /\ result' = Outcome("create_autoservice", uid, Val(given.autoservice_id), out.err, out.ret)
            /\ UNCHANGED <<profileTables, maintenanceTables, referenceTables, control>>

\* The autoservice handed to the validation need not be stored: only its
\* autoservice_id is read.
ValidateManageProvidedMaintenance(uid, autoservice_id) ==
    LET out == validate_autoservice_manage_provided_maintenance_permissions(
                   autoservice_users, AutoserviceEntity(Some(autoservice_id), AutoserviceA), uid)
    IN  /\ service = "AutoserviceService"
        /\ result' = Outcome("validate_autoservice_manage_provided_maintenance_permissions",
                             uid, autoservice_id, out.err, None)
        /\ UNCHANGED <<store, control>>

PatchAutoservice(uid, autoservice_id, changed_autoservice) ==
    LET out == patch_autoservice(autoservices, autoservice_users, autoservice_id, uid, changed_autoservice)
    IN  /\ service = "AutoserviceService"
        /\ autoservices' = out.table
        /\ result' = Outcome("patch_autoservice", uid, autoservice_id, out.err, out.ret)
        /\ UNCHANGED <<profileTables, autoservice_users, maintenanceTables, referenceTables, control>>

\* ------------------------------------------------------ Country and Vehicle
CountryIds == 1..MaxIds
VehicleBrandIds == 1..MaxIds
VehicleModelIds == 1..MaxIds
VehicleGenerationIds == 1..MaxIds
VehicleIds == 1..MaxIds

\* A name that no other row of the table has (the name columns are UNIQUE).
NameOf(kind, id) == Some(<<kind, id>>)

\* Rows of the reference tables; row i refers to the parents with id i.
CountryRow(country_id) == [name |-> NameOf("Country", country_id)]

VehicleBrandRow(vehicle_brand_id) ==
    [name |-> NameOf("VehicleBrand", vehicle_brand_id), popular |-> Some(FALSE),
     country_id |-> Some(vehicle_brand_id)]

VehicleModelRow(vehicle_model_id) ==
    [name |-> NameOf("VehicleModel", vehicle_model_id), vehicle_brand_id |-> Some(vehicle_model_id)]

VehicleGenerationRow(vehicle_generation_id) ==
    [name |-> NameOf("VehicleGeneration", vehicle_generation_id),
     start_year_production |-> Some("2010"), end_year_production |-> None,
     vehicle_model_id |-> Some(vehicle_generation_id)]

VehicleRow(vehicle_id) ==
    [state_number |-> None, vin |-> NameOf("VIN", vehicle_id),
     vehicle_brand_id |-> Some(vehicle_id), vehicle_model_id |-> Some(vehicle_id),
     vehicle_generation_id |-> Some(vehicle_id), customer_id |-> Some(vehicle_id)]

\* A country lookup that finds a country under every id.
get_country_by_country_id_never_missing(table, country_id) ==
    [err |-> "ok", ret |-> Some([country_id |-> Some(country_id), name |-> NameOf("Country", country_id)])]

\* CountryService.get_country_by_country_id
get_country_by_country_id(table, country_id) ==
    IF country_id \in DOMAIN table
    THEN [err |-> "ok", ret |-> Some(Load(table, country_id, "country_id"))]
    ELSE [err |-> "CountryNotFoundError", ret |-> None]

get_vehicle_brand_by_vehicle_brand_id(table, vehicle_brand_id) ==
    IF vehicle_brand_id \in DOMAIN table
    THEN [err |-> "ok", ret |-> Some(Load(table, vehicle_brand_id, "vehicle_brand_id"))]
    ELSE [err |-> "VehicleBrandNotFoundError", ret |-> None]

get_vehicle_model_by_vehicle_model_id(table, vehicle_model_id) ==
    IF vehicle_model_id \in DOMAIN table
    THEN [err |-> "ok", ret |-> Some(Load(table, vehicle_model_id, "vehicle_model_id"))]
    ELSE [err |-> "VehicleModelNotFoundError", ret |-> None]

get_vehicle_generation_by_vehicle_generation_id(table, vehicle_generation_id) ==
    IF vehicle_generation_id \in DOMAIN table
    THEN [err |-> "ok", ret |-> Some(Load(table, vehicle_generation_id, "vehicle_generation_id"))]
    ELSE [err |-> "VehicleGenerationNotFoundError", ret |-> None]

get_vehicle_by_vehicle_id(table, vehicle_id) ==
    IF vehicle_id \in DOMAIN table
    THEN [err |-> "ok", ret |-> Some(Load(table, vehicle_id, "vehicle_id"))]
    ELSE [err |-> "VehicleNotFoundError", ret |-> None]

GetCountry(country_id) ==
    LET out == get_country_by_country_id(countries, country_id)
    IN  /\ service = "CountryService"
        /\ result' = Outcome("get_country_by_country_id", 0, country_id, out.err, out.ret)
        /\ UNCHANGED <<store, control>>

GetVehicleBrand(vehicle_brand_id) ==
    LET out == get_vehicle_brand_by_vehicle_brand_id(vehicle_brands, vehicle_brand_id)
    IN  /\ service = "VehicleBrandService"
        /\ result' = Outcome("get_vehicle_brand_by_vehicle_brand_id", 0, vehicle_brand_id, out.err, out.ret)
        /\ UNCHANGED <<store, control>>

GetVehicleModel(vehicle_model_id) ==
    LET out == get_vehicle_model_by_vehicle_model_id(vehicle_models, vehicle_model_id)
    IN  /\ service = "VehicleModelService"
        /\ result' = Outcome("get_vehicle_model_by_vehicle_model_id", 0, vehicle_model_id, out.err, out.ret)
        /\ UNCHANGED <<store, control>>

GetVehicleGeneration(vehicle_generation_id) ==
    LET out == get_vehicle_generation_by_vehicle_generation_id(vehicle_generations, vehicle_generation_id)
    IN  /\ service = "VehicleGenerationService"
        /\ result' = Outcome("get_vehicle_generation_by_vehicle_generation_id", 0,
                             vehicle_generation_id, out.err, out.ret)
        /\ UNCHANGED <<store, control>>

GetVehicle(vehicle_id) ==
    LET out == get_vehicle_by_vehicle_id(vehicles, vehicle_id)
    IN  /\ service = "VehicleService"
        /\ result' = Outcome("get_vehicle_by_vehicle_id", 0, vehicle_id, out.err, out.ret)
        /\ UNCHANGED <<store, control>>

\* ------------------------------------------------------ ProvidedMaintenance
ProvidedMaintenanceIds == 1..MaxIds
ProvidedMaintenanceTypeIds == 1..MaxIds

ProvidedMaintenanceTypeRow(provided_maintenance_type_id) ==
    [name |-> NameOf("ProvidedMaintenanceType", provided_maintenance_type_id),
     provided_maintenance_category_id |-> Some(1)]

ProvidedMaintenance(provided_maintenance_id, provided_maintenance_type_id, mechanic_id, autoservice_id) ==
    [provided_maintenance_id |-> provided_maintenance_id, price |-> Some("100.00"), description |-> None,
     provided_maintenance_type_id |-> provided_maintenance_type_id,
     mechanic_id |-> mechanic_id, autoservice_id |-> autoservice_id]

\* What ProvidedMaintenancePostDTO builds: no provided_maintenance_id, a type
\* id, and each of mechanic_id and autoservice_id given or null.
NewProvidedMaintenance ==
    {ProvidedMaintenance(None, Some(t), m, a) :
        t \in ProvidedMaintenanceTypeIds, m \in Opt(MechanicIds), a \in Opt(AutoserviceIds)}

get_provided_maintenance_type_by_provided_maintenance_id(table, provided_maintenance_type_id) ==
    IF provided_maintenance_type_id \in DOMAIN table
    THEN [err |-> "ok",
          ret |-> Some(Load(table, provided_maintenance_type_id, "provided_maintenance_type_id"))]
    ELSE [err |-> "ProvidedMaintenanceTypeNotFoundError", ret |-> None]

get_provided_maintenance_by_provided_maintenance_id(table, provided_maintenance_id) ==
    IF provided_maintenance_id \in DOMAIN table
    THEN [err |-> "ok", ret |-> Some(Load(table, provided_maintenance_id, "provided_maintenance_id"))]
    ELSE [err |-> "ProvidedMaintenanceNotFoundError", ret |-> None]

\* A maintenance table without the CHECK constraint.
check_mechanic_or_autoservice_dropped(maintenance) == TRUE

\* CHECK (mechanic_id IS NOT NULL OR autoservice_id IS NOT NULL)
check_mechanic_or_autoservice(maintenance) ==
    maintenance.mechanic_id # None \/ maintenance.autoservice_id # None

\* ProvidedMaintenance.__table__: primary key, NOT NULL price and type id, the
\* three foreign keys, and the CHECK constraint.
ProvidedMaintenanceInsertViolates(table, types, mechs, autos, maintenance) ==
    \/ Val(maintenance.provided_maintenance_id) \in DOMAIN table
    \/ maintenance.price = None
    \/ maintenance.provided_maintenance_type_id = None
    \/ \E t \in maintenance.provided_maintenance_type_id : t \notin DOMAIN types
    \/ \E m \in maintenance.mechanic_id : m \notin DOMAIN mechs
    \/ \E a \in maintenance.autoservice_id : a \notin DOMAIN autos
    \/ ~check_mechanic_or_autoservice(maintenance)

\* A validate_mechanic_owner that never raises.
validate_mechanic_owner_never_raises(mechanic, uid) == [err |-> "ok"]

\* MechanicService.validate_mechanic_owner
validate_mechanic_owner(mechanic, uid) ==
    IF MechanicBelongsToAnotherUser(mechanic, uid)
    THEN [err |-> "MechanicBelongsToAnotherUserError"]
    ELSE [err |-> "ok"]

\* ProvidedMaintenanceService.create_provided_maintenance.  The primary key
\* default (uuid7) is applied when the row is inserted: fresh is that value.
create_provided_maintenance(table, types, mechs, autos, users, maintenance, uid, fresh) ==
    LET type == get_provided_maintenance_type_by_provided_maintenance_id(
                    types, Val(maintenance.provided_maintenance_type_id))
        mechanic ==
            IF maintenance.mechanic_id = None THEN [err |-> "ok"]
            ELSE LET got == get_mechanic_by_mechanic_id(mechs, Val(maintenance.mechanic_id))
                 IN  IF got.err # "ok" THEN [err |-> got.err]
                     ELSE validate_mechanic_owner(Val(got.ret), uid)
        autoservice ==
            IF maintenance.autoservice_id = None THEN [err |-> "ok"]
            ELSE LET got == get_autoservice_by_autoservice_id(autos, Val(maintenance.autoservice_id))
                 IN  IF got.err # "ok" THEN [err |-> got.err]
                     ELSE validate_autoservice_manage_provided_maintenance_permissions(
                              users, Val(got.ret), uid)
        saved == IF maintenance.provided_maintenance_id = None
                 THEN [maintenance EXCEPT !.provided_maintenance_id = Some(fresh)]
                 ELSE maintenance
    IN  IF type.err # "ok" THEN [err |-> type.err, ret |-> None, table |-> table]
        ELSE IF mechanic.err # "ok" THEN [err |-> mechanic.err, ret |-> None, table |-> table]
        ELSE IF autoservice.err # "ok" THEN [err |-> autoservice.err, ret |-> None, table |-> table]
        ELSE IF ProvidedMaintenanceInsertViolates(table, types, mechs, autos, saved)
        THEN [err |-> "IntegrityError", ret |-> None, table |-> table]
        ELSE [err |-> "ok", ret |-> Some(saved),
              table |-> Put(table, Val(saved.provided_maintenance_id),
                            RowOf(saved, "provided_maintenance_id"))]

\* A _get_provided_maintenance_with_owner that lets any user manage the
\* maintenance of a mechanic.
MechanicOfMaintenanceBelongsToAnotherUserSkipped(mechanic, uid) == FALSE

\* The ownership test of _get_provided_maintenance_with_owner.
MechanicOfMaintenanceBelongsToAnotherUser(mechanic, uid) == mechanic.uid # Some(uid)

\* ProvidedMaintenanceService._get_provided_maintenance_with_owner
get_provided_maintenance_with_owner(table, mechs, autos, users, provided_maintenance_id, uid) ==
    LET found == get_provided_maintenance_by_provided_maintenance_id(table, provided_maintenance_id)
        maintenance == Val(found.ret)
        mechanic ==
            IF maintenance.mechanic_id = None THEN [err |-> "ok"]
            ELSE LET got == get_mechanic_by_mechanic_id(mechs, Val(maintenance.mechanic_id))
                 IN  IF got.err # "ok" THEN [err |-> got.err]
                     ELSE IF MechanicOfMaintenanceBelongsToAnotherUser(Val(got.ret), uid)
                     THEN [err |-> "MechanicBelongsToAnotherUserError"]
                     ELSE [err |-> "ok"]
        autoservice ==
            IF maintenance.autoservice_id = None THEN [err |-> "ok"]
            ELSE LET got == get_autoservice_by_autoservice_id(autos, Val(maintenance.autoservice_id))
                 IN  IF got.err # "ok" THEN [err |-> got.err]
                     ELSE validate_autoservice_manage_provided_maintenance_permissions(
                              users, Val(got.ret), uid)
    IN  IF found.err # "ok" THEN [err |-> found.err, ret |-> None]
        ELSE IF mechanic.err # "ok" THEN [err |-> mechanic.err, ret |-> None]
        ELSE IF autoservice.err # "ok" THEN [err |-> autoservice.err, ret |-> None]
        ELSE [err |-> "ok", ret |-> found.ret]

\* ------------------------------------------------------------- associations
ProvidedMaintenanceCountryAssociation(provided_maintenance_id, country_id) ==
    [provided_maintenance_id |-> provided_maintenance_id, country_id |-> country_id]

ProvidedMaintenanceVehicleBrandAssociation(provided_maintenance_id, vehicle_brand_id) ==
    [provided_maintenance_id |-> provided_maintenance_id, vehicle_brand_id |-> vehicle_brand_id]

\* What the association Post DTOs build.
NewCountryAssociations ==
    {ProvidedMaintenanceCountryAssociation(p, c) : p \in ProvidedMaintenanceIds, c \in CountryIds}

NewVehicleBrandAssociations ==
    {ProvidedMaintenanceVehicleBrandAssociation(p, b) : p \in ProvidedMaintenanceIds, b \in VehicleBrandIds}

\* An association table without its primary key.
AssociationPrimaryKeyNotEnforced(table, row) == FALSE

\* The composite primary key of the two association tables: the row is there.
AssociationPrimaryKeyViolated(table, row) == row \in BagToSet(table)

\* ProvidedMaintenanceCountryAssociation.__table__: primary key
\* (provided_maintenance_id, country_id) and the two foreign keys.
CountryAssociationInsertViolates(table, parents, refs, row) ==
    \/ AssociationPrimaryKeyViolated(table, row)
    \/ row.provided_maintenance_id \notin DOMAIN parents
    \/ row.country_id \notin DOMAIN refs

\* ProvidedMaintenanceVehicleBrandAssociation.__table__: primary key
\* (provided_maintenance_id, vehicle_brand_id) and the two foreign keys.
VehicleBrandAssociationInsertViolates(table, parents, refs, row) ==
    \/ AssociationPrimaryKeyViolated(table, row)
    \/ row.provided_maintenance_id \notin DOMAIN parents
    \/ row.vehicle_brand_id \notin DOMAIN refs

\* A country association service that never finds the pair.
CountryAssociationStoredNever(table, association) == [err |-> "ok"]

\* The get_one_or_none test of
\* ProvidedMaintenanceCountryAssociationService.create_provided_maintenance_country_association.
CountryAssociationStored(table, association) ==
    LET matching == {r \in BagToSet(table) :
                        /\ r.provided_maintenance_id = association.provided_maintenance_id
                        /\ r.country_id = association.country_id}
        n == MatchCount(table, matching)
    IN  IF n = 0 THEN [err |-> "ok"]
        ELSE IF n = 1 THEN [err |-> "ProvidedMaintenanceCountryAssociationAlreadyExistsError"]
        ELSE [err |-> "MultipleResultsFoundError"]

\* The get_one_or_none test of
\* ProvidedMaintenanceVehicleBrandAssociationService.create_provided_maintenance_vehicle_brand_association.
VehicleBrandAssociationStored(table, association) ==
    LET matching == {r \in BagToSet(table) :
                        /\ r.provided_maintenance_id = association.provided_maintenance_id
                        /\ r.vehicle_brand_id = association.vehicle_brand_id}
        n == MatchCount(table, matching)
    IN  IF n = 0 THEN [err |-> "ok"]
        ELSE IF n = 1 THEN [err |-> "ProvidedMaintenanceVehicleBrandAssociationAlreadyExistsError"]
        ELSE [err |-> "MultipleResultsFoundError"]

\* self.create(data=...) of the country association service.
SaveCountryAssociation(table, parents, refs, association) ==
    IF CountryAssociationInsertViolates(table, parents, refs, association)
    THEN [err |-> "IntegrityError", ret |-> None, table |-> table]
    ELSE [err |-> "ok", ret |-> Some(association), table |-> table (+) SetToBag({association})]

\* self.create(data=...) of the vehicle brand association service.
SaveVehicleBrandAssociation(table, parents, refs, association) ==
    IF VehicleBrandAssociationInsertViolates(table, parents, refs, association)
    THEN [err |-> "IntegrityError", ret |-> None, table |-> table]
    ELSE [err |-> "ok", ret |-> Some(association), table |-> table (+) SetToBag({association})]

\* ProvidedMaintenanceCountryAssociationService.create_provided_maintenance_country_association
CountryAssociationService_create(table, parents, refs, association) ==
    LET stored == CountryAssociationStored(table, association)
    IN  IF stored.err # "ok" THEN [err |-> stored.err, ret |-> None, table |-> table]
        ELSE SaveCountryAssociation(table, parents, refs, association)

\* ProvidedMaintenanceVehicleBrandAssociationService.create_provided_maintenance_vehicle_brand_association
VehicleBrandAssociationService_create(table, parents, refs, association) ==
    LET stored == VehicleBrandAssociationStored(table, association)
    IN  IF stored.err # "ok" THEN [err |-> stored.err, ret |-> None, table |-> table]
        ELSE SaveVehicleBrandAssociation(table, parents, refs, association)

\* ProvidedMaintenanceService.create_provided_maintenance_country_association up
\* to the last read it makes: the owner checks and the country lookup.
country_association_reads(parents, mechs, autos, users, refs, association, uid) ==
    LET owned == get_provided_maintenance_with_owner(
                     parents, mechs, autos, users, association.provided_maintenance_id, uid)
        country == get_country_by_country_id(refs, association.country_id)
    IN  IF owned.err # "ok" THEN [err |-> owned.err]
        ELSE IF country.err # "ok" THEN [err |-> country.err]
        ELSE [err |-> "ok"]

\* The same part of create_provided_maintenance_vehicle_brand_association.
vehicle_brand_association_reads(parents, mechs, autos, users, refs, association, uid) ==
    LET owned == get_provided_maintenance_with_owner(
                     parents, mechs, autos, users, association.provided_maintenance_id, uid)
        vehicle_brand == get_vehicle_brand_by_vehicle_brand_id(refs, association.vehicle_brand_id)
    IN  IF owned.err # "ok" THEN [err |-> owned.err]
        ELSE IF vehicle_brand.err # "ok" THEN [err |-> vehicle_brand.err]
        ELSE [err |-> "ok"]

\* ProvidedMaintenanceService.create_provided_maintenance_country_association
create_provided_maintenance_country_association(table, parents, mechs, autos, users, refs, association, uid) ==
    LET reads == country_association_reads(parents, mechs, autos, users, refs, association, uid)
    IN  IF reads.err # "ok" THEN [err |-> reads.err, ret |-> None, table |-> table]
        ELSE CountryAssociationService_create(table, parents, refs, association)

\* ProvidedMaintenanceService.create_provided_maintenance_vehicle_brand_association
create_provided_maintenance_vehicle_brand_association(table, parents, mechs, autos, users, refs, association, uid) ==
    LET reads == vehicle_brand_association_reads(parents, mechs, autos, users, refs, association, uid)
    IN  IF reads.err # "ok" THEN [err |-> reads.err, ret |-> None, table |-> table]
        ELSE VehicleBrandAssociationService_create(table, parents, refs, association)

\* ---------------------------------------------------- MaintenanceController
HTTP_201_CREATED == 201
HTTP_403_FORBIDDEN == 403
HTTP_404_NOT_FOUND == 404
HTTP_409_CONFLICT == 409
HTTP_500_INTERNAL_SERVER_ERROR == 500

PermissionErrors ==
    {"MechanicBelongsToAnotherUserError", "AutoserviceUserNotFoundError",
     "AutoserviceUserDoesntHavePermissionsError"}

\* The except clauses of MaintenanceController.create_provided_maintenance; an
\* exception none of them names leaves the handler and is answered with 500.
CreateProvidedMaintenanceStatus(err) ==
    IF err = "ok" THEN HTTP_201_CREATED
    ELSE IF err \in {"ProvidedMaintenanceTypeNotFoundError", "MechanicNotFoundError",
                     "AutoserviceNotFoundError"}
    THEN HTTP_404_NOT_FOUND
    ELSE IF err \in PermissionErrors THEN HTTP_403_FORBIDDEN
    ELSE HTTP_500_INTERNAL_SERVER_ERROR

\* The except clauses of
\* MaintenanceController.create_provided_maintenance_country_association.
CreateCountryAssociationStatus(err) ==
    IF err = "ok" THEN HTTP_201_CREATED
    ELSE IF err \in {"ProvidedMaintenanceNotFoundError", "CountryNotFoundError"}
    THEN HTTP_404_NOT_FOUND
    ELSE IF err \in PermissionErrors THEN HTTP_403_FORBIDDEN
    ELSE IF err = "ProvidedMaintenanceCountryAssociationAlreadyExistsError" THEN HTTP_409_CONFLICT
    ELSE HTTP_500_INTERNAL_SERVER_ERROR

\* The except clauses of
\* MaintenanceController.create_provided_maintenance_vehicle_brand_association.
CreateVehicleBrandAssociationStatus(err) ==
    IF err = "ok" THEN HTTP_201_CREATED
    ELSE IF err \in {"ProvidedMaintenanceNotFoundError", "VehicleBrandNotFoundError"}
    THEN HTTP_404_NOT_FOUND
    ELSE IF err \in PermissionErrors THEN HTTP_403_FORBIDDEN
    ELSE IF err = "ProvidedMaintenanceVehicleBrandAssociationAlreadyExistsError" THEN HTTP_409_CONFLICT
    ELSE HTTP_500_INTERNAL_SERVER_ERROR

\* What a handler answers: the outcome of the service call, the request it
\* was made with, and the status code of the response.
Response(op, uid, id, req, err, status, ret) ==
    [op |-> op, uid |-> uid, id |-> id, req |-> req, err |-> err, status |-> status, ret |-> ret]

\* Ids are opaque, so which unused one uuid7() yields is immaterial: the
\* least is taken.
NextProvidedMaintenanceId(unused) == CHOOSE i \in unused : \A j \in unused : i <= j

\* POST /maintenance/provided_maintenance
CreateProvidedMaintenance(uid, data) ==
    LET unused == ProvidedMaintenanceIds \ DOMAIN provided_maintenance
        fresh == NextProvidedMaintenanceId(unused)
        out == create_provided_maintenance(
                   provided_maintenance, provided_maintenance_types, mechanics, autoservices,
                   autoservice_users, data, uid, fresh)
    IN  /\ service = "MaintenanceController"
        /\ unused # {}
        /\ provided_maintenance' = out.table
        /\ result' = Response("create_provided_maintenance", uid,
                              IF out.err = "ok" THEN fresh ELSE 0,
                              data, out.err, CreateProvidedMaintenanceStatus(out.err), out.ret)
        /\ UNCHANGED <<profileTables, autoserviceTables, country_associations,
                       vehicle_brand_associations, referenceTables, control>>

\* POST /maintenance/provided_maintenance/countries
CreateCountryAssociation(uid, data) ==
    LET out == create_provided_maintenance_country_association(
                   country_associations, provided_maintenance, mechanics, autoservices,
                   autoservice_users, countries, data, uid)
    IN  /\ service = "MaintenanceController"
        /\ country_associations' = out.table
        /\ result' = Response("create_provided_maintenance_country_association", uid,
                              data.provided_maintenance_id, data, out.err,
                              CreateCountryAssociationStatus(out.err), out.ret)
        /\ UNCHANGED <<profileTables, autoserviceTables, provided_maintenance,
                       vehicle_brand_associations, referenceTables, control>>

\* POST /maintenance/provided_maintenance/vehicle_brands
CreateVehicleBrandAssociation(uid, data) ==
    LET out == create_provided_maintenance_vehicle_brand_association(
                   vehicle_brand_associations, provided_maintenance, mechanics, autoservices,
                   autoservice_users, vehicle_brands, data, uid)
    IN  /\ service = "MaintenanceController"
        /\ vehicle_brand_associations' = out.table
        /\ result' = Response("create_provided_maintenance_vehicle_brand_association", uid,
                              data.provided_maintenance_id, data, out.err,
                              CreateVehicleBrandAssociationStatus(out.err), out.ret)
        /\ UNCHANGED <<profileTables, autoserviceTables, provided_maintenance,
                       country_associations, referenceTables, control>>

\* The lookups of the two maintenance services that have one.
GetProvidedMaintenance(provided_maintenance_id) ==
    LET out == get_provided_maintenance_by_provided_maintenance_id(
                   provided_maintenance, provided_maintenance_id)
    IN  /\ service = "BaseProvidedMaintenanceService"
        /\ result' = Outcome("get_provided_maintenance_by_provided_maintenance_id", 0,
                             provided_maintenance_id, out.err, out.ret)
        /\ UNCHANGED <<store, control>>

GetProvidedMaintenanceType(provided_maintenance_type_id) ==
    LET out == get_provided_maintenance_type_by_provided_maintenance_id(
                   provided_maintenance_types, provided_maintenance_type_id)
    IN  /\ service = "ProvidedMaintenanceTypeService"
        /\ result' = Outcome("get_provided_maintenance_type_by_provided_maintenance_id", 0,
                             provided_maintenance_type_id, out.err, out.ret)
        /\ UNCHANGED <<store, control>>

\* ----------------------------------------- concurrent association requests
MaxInFlight == 2    \* association requests between their reads and their insert

InFlight(op, uid, data) == [op |-> op, uid |-> uid, req |-> data]

\* A country association request runs up to its insert: the reads of the
\* service and the get_one_or_none of the association service.  A request
\* that raises is answered at once; one that does not awaits its insert.
BeginCountryAssociation(uid, data) ==
    LET reads == country_association_reads(
                     provided_maintenance, mechanics, autoservices, autoservice_users, countries, data, uid)
        stored == CountryAssociationStored(country_associations, data)
        err == IF reads.err # "ok" THEN reads.err ELSE stored.err
        op == "create_provided_maintenance_country_association"
    IN  /\ service = "MaintenanceController"
        /\ BagCardinality(pending) < MaxInFlight
        /\ IF err = "ok"
           THEN /\ pending' = pending (+) SetToBag({InFlight(op, uid, data)})
                /\ UNCHANGED result
           ELSE /\ result' = Response(op, uid, data.provided_maintenance_id, data, err,
                                      CreateCountryAssociationStatus(err), None)
                /\ UNCHANGED pending
        /\ UNCHANGED <<store, service, cookies, now, blacklist_store>>

BeginVehicleBrandAssociation(uid, data) ==
    LET reads == vehicle_brand_association_reads(
                     provided_maintenance, mechanics, autoservices, autoservice_users,
                     vehicle_brands, data, uid)
        stored == VehicleBrandAssociationStored(vehicle_brand_associations, data)
        err == IF reads.err # "ok" THEN reads.err ELSE stored.err
        op == "create_provided_maintenance_vehicle_brand_association"
    IN  /\ service = "MaintenanceController"
        /\ BagCardinality(pending) < MaxInFlight
        /\ IF err = "ok"
           THEN /\ pending' = pending (+) SetToBag({InFlight(op, uid, data)})
                /\ UNCHANGED result
           ELSE /\ result' = Response(op, uid, data.provided_maintenance_id, data, err,
                                      CreateVehicleBrandAssociationStatus(err), None)
                /\ UNCHANGED pending
        /\ UNCHANGED <<store, service, cookies, now, blacklist_store>>

\* The insert of a request in flight, and its answer.
FinishCountryAssociation(request) ==
    LET out == SaveCountryAssociation(country_associations, provided_maintenance, countries, request.req)
    IN  /\ service = "MaintenanceController"
        /\ request.op = "create_provided_maintenance_country_association"
        /\ BagIn(request, pending)
        /\ pending' = pending (-) SetToBag({request})
        /\ country_associations' = out.table
        /\ result' = Response(request.op, request.uid, request.req.provided_maintenance_id,
                              request.req, out.err, CreateCountryAssociationStatus(out.err), out.ret)
        /\ UNCHANGED <<profileTables, autoserviceTables, provided_maintenance,
                       vehicle_brand_associations, referenceTables, service, cookies, now, blacklist_store>>

FinishVehicleBrandAssociation(request) ==
    LET out == SaveVehicleBrandAssociation(
                   vehicle_brand_associations, provided_maintenance, vehicle_brands, request.req)
    IN  /\ service = "MaintenanceController"
        /\ request.op = "create_provided_maintenance_vehicle_brand_association"
        /\ BagIn(request, pending)
        /\ pending' = pending (-) SetToBag({request})
        /\ vehicle_brand_associations' = out.table
        /\ result' = Response(request.op, request.uid, request.req.provided_maintenance_id,
                              request.req, out.err, CreateVehicleBrandAssociationStatus(out.err), out.ret)
        /\ UNCHANGED <<profileTables, autoserviceTables, provided_maintenance,
                       country_associations, referenceTables, service, cookies, now, blacklist_store>>


\* ------------------------------------------ concurrent create_customer calls
\* create_customer and create_mechanic await twice: the get_one_or_none and
\* the create.  Calls of other requests run between the two.

\* self.get_one_or_none(Customer.uid == user.uid)
saved_customer(table, uid) ==
    IF \E k \in DOMAIN table : table[k].uid = Some(uid)
    THEN Some(Load(table, CHOOSE k \in DOMAIN table : table[k].uid = Some(uid), "customer_id"))
    ELSE None

\* self.get_one_or_none(Mechanic.uid == user.uid)
saved_mechanic(table, uid) ==
    IF \E k \in DOMAIN table : table[k].uid = Some(uid)
    THEN Some(Load(table, CHOOSE k \in DOMAIN table : table[k].uid = Some(uid), "mechanic_id"))
    ELSE None

\* A create_customer call runs up to its second await: it returns the saved
\* customer, or it is in flight with the record it was given.
BeginCreateCustomer(uid, customer) ==
    LET saved == saved_customer(customers, uid)
    IN  /\ service = "CustomerService"
        /\ BagCardinality(pending) < MaxInFlight
        /\ IF saved # None
           THEN /\ result' = Outcome("create_customer", uid, Val(Val(saved).customer_id), "ok", saved)
                /\ UNCHANGED pending
           ELSE /\ pending' = pending (+) SetToBag({InFlight("create_customer", uid, customer)})
                /\ UNCHANGED result
        /\ UNCHANGED <<store, service, cookies, now, blacklist_store>>

\* The rest of the call: customer.uid = user.uid and self.create(customer),
\* the primary key being the uuid7() of the record.
FinishCreateCustomer(request) ==
    /\ service = "CustomerService"
    /\ request.op = "create_customer"
    /\ BagIn(request, pending)
    /\ \E given \in WithCustomerId(request.req, Fresh(CustomerIds \ DOMAIN customers)) :
          LET owned == [given EXCEPT !.uid = Some(request.uid)]
              refused == CustomerInsertViolates(customers, owned)
          IN  /\ pending' = pending (-) SetToBag({request})
              /\ customers' = IF refused THEN customers
                           ELSE Put(customers, Val(owned.customer_id), RowOf(owned, "customer_id"))
              /\ result' = Outcome("create_customer", request.uid, Val(owned.customer_id),
                                   IF refused THEN "IntegrityError" ELSE "ok",
                                   IF refused THEN None ELSE Some(owned))
              /\ UNCHANGED <<mechanics, autoserviceTables, maintenanceTables, referenceTables,
                             service, cookies, now, blacklist_store>>

BeginCreateMechanic(uid, mechanic) ==
    LET saved == saved_mechanic(mechanics, uid)
    IN  /\ service = "MechanicService"
        /\ BagCardinality(pending) < MaxInFlight
        /\ IF saved # None
           THEN /\ result' = Outcome("create_mechanic", uid, Val(Val(saved).mechanic_id), "ok", saved)
                /\ UNCHANGED pending
           ELSE /\ pending' = pending (+) SetToBag({InFlight("create_mechanic", uid, mechanic)})
                /\ UNCHANGED result
        /\ UNCHANGED <<store, service, cookies, now, blacklist_store>>

FinishCreateMechanic(request) ==
    /\ service = "MechanicService"
    /\ request.op = "create_mechanic"
    /\ BagIn(request, pending)
    /\ \E given \in WithMechanicId(request.req, Fresh(MechanicIds \ DOMAIN mechanics)) :
          LET owned == [given EXCEPT !.uid = Some(request.uid)]
              refused == MechanicInsertViolates(mechanics, owned)
          IN  /\ pending' = pending (-) SetToBag({request})
              /\ mechanics' = IF refused THEN mechanics
                           ELSE Put(mechanics, Val(owned.mechanic_id), RowOf(owned, "mechanic_id"))
              /\ result' = Outcome("create_mechanic", request.uid, Val(owned.mechanic_id),
                                   IF refused THEN "IntegrityError" ELSE "ok",
                                   IF refused THEN None ELSE Some(owned))
              /\ UNCHANGED <<customers, autoserviceTables, maintenanceTables, referenceTables,
                             service, cookies, now, blacklist_store>>

\* ------------------------------------------- identity cookies (POST handlers)
\* The cookie that carries the JWT (AuthSettings.jwt_token_cookie_key) and
\* the three identity cookies, in the order a request lists them.
jwt_token_cookie_key == "jwt_token_cookie_key"
CookieKeys == <<jwt_token_cookie_key, "customer_id", "mechanic_id", "autoservice_id">>

\* str(uuid)
Str(id) == <<"str", id>>

\* litestar's Cookie(key=..., value=...), and the cookie delete_cookie
\* builds: Cookie(key=..., expires=0, max_age=0).
Cookie(key, value) == [key |-> key, value |-> Some(value), max_age |-> None]
ExpiredCookie(key) == [key |-> key, value |-> None, max_age |-> Some(0)]

\* Response(content, cookies=request.cookies): one Cookie per cookie of the
\* request.
ResponseCookies(request_cookies) ==
    LET keys == SelectSeq(CookieKeys, LAMBDA k : k \in DOMAIN request_cookies)
    IN  [i \in 1..Len(keys) |-> Cookie(keys[i], request_cookies[keys[i]])]

\* Response.set_cookie: the cookie is appended.
set_cookie(response_cookies, cookie) == Append(response_cookies, cookie)

\* Response.delete_cookie: the cookies of that key are dropped and an expired
\* one is appended.
delete_cookie(response_cookies, key) ==
    Append(SelectSeq(response_cookies, LAMBDA c : c.key # key), ExpiredCookie(key))

\* Response.to_asgi_response: the cookies go through a set, and cookies of
\* one key (path and domain) are equal; of equal elements a set keeps the
\* one that entered first.
SentCookies(response_cookies) ==
    {response_cookies[i] : i \in {j \in DOMAIN response_cookies :
        \A k \in 1..(j - 1) : response_cookies[k].key # response_cookies[j].key}}

\* The client after the Set-Cookie headers of a response: a cookie with
\* Max-Age=0 is dropped, any other is stored.
ClientAfter(jar, sent) ==
    LET dropped == {c.key : c \in {d \in sent : d.max_age = Some(0)}}
        stored == {c \in sent : c.max_age # Some(0)}
    IN  [k \in (DOMAIN jar \cup {c.key : c \in stored}) \ dropped |->
            IF \E c \in stored : c.key = k
            THEN Val((CHOOSE c \in stored : c.key = k).value)
            ELSE jar[k]]

\* request.user: the user the JWT of the request names.
RequestUser(request_cookies) == request_cookies[jwt_token_cookie_key]

\* The cookies of the response of a create handler: the request's, the
\* identity cookie of the created kind, and the other two kinds deleted.
IdentityResponse(request_cookies, kind, id) ==
    LET response == set_cookie(ResponseCookies(request_cookies), Cookie(kind, Str(id)))
        others == SelectSeq(<<"customer_id", "mechanic_id", "autoservice_id">>, LAMBDA k : k # kind)
    IN  delete_cookie(delete_cookie(response, others[1]), others[2])

\* Ids are opaque, so which unused one uuid7() yields is immaterial: the
\* least is taken.
NextId(unused) == CHOOSE i \in unused : \A j \in unused : i <= j

\* ------------------------------------------------ validators of the models
\* The validators run when a model object is built from a request body,
\* before the handler is called; a body they refuse is answered with 400.
HTTP_200_OK == 200
HTTP_400_BAD_REQUEST == 400

MinNameLength == 2
MaxNameLength == 150
ItnLengths == {10, 12}
PsrnLength == 13

Char(s, i) == SubSeq(s, i, i)

\* \d
Digits == {"0", "1", "2", "3", "4", "5", "6", "7", "8", "9"}

\* \d{n} over the whole of s
DigitsOnly(s, n) == Len(s) = n /\ \A i \in 1..n : Char(s, i) \in Digits

\* $ matches at the end of the string and just before a newline that ends
\* the string: the parts of s a pattern ^...$ may span.
BeforeEnd(s) ==
    {s} \cup (IF Len(s) > 0 /\ Char(s, Len(s)) = "\n" THEN {SubSeq(s, 1, Len(s) - 1)} ELSE {})

\* A name validator without the upper limit.
NameTooLongAccepted(name) == FALSE

\* validate_name of Customer, Mechanic and Autoservice: elif len(name) > 150
NameTooLong(name) == Len(name) > MaxNameLength

validate_name(name) ==
    IF Len(name) < MinNameLength THEN "ClientException"
    ELSE IF NameTooLong(name) THEN "ClientException"
    ELSE "ok"

\* Autoservice.validate_itn: match(r"^\d{10}(\d{2})?$", value)
validate_itn(value) ==
    IF \E part \in BeforeEnd(value) : \E n \in ItnLengths : DigitsOnly(part, n)
    THEN "ok" ELSE "ClientException"

\* Autoservice.validate_psrn: match(r"^\d{13}$", value)
validate_psrn(value) ==
    IF \E part \in BeforeEnd(value) : DigitsOnly(part, PsrnLength)
    THEN "ok" ELSE "ClientException"

\* The validators of the attributes a body sets, applied to its values.
Validated(data, validators) ==
    IF \E a \in DOMAIN validators : data[a] # None /\ validators[a] # "ok"
    THEN "ClientException" ELSE "ok"

\* Customer(**data), Mechanic(**data), Autoservice(**data): the object the
\* DTO builds from a body, or the exception of a validator.  The bodies carry
\* cities, descriptions, addresses and coordinates within the limits.
Customer(data) ==
    LET err == Validated(data, [name |-> IF data.name = None THEN "ok" ELSE validate_name(Val(data.name))])
    IN  [err |-> err, ret |-> IF err = "ok" THEN Some(CustomerEntity(None, None, data)) ELSE None]

Mechanic(data) ==
    LET err == Validated(data, [name |-> IF data.name = None THEN "ok" ELSE validate_name(Val(data.name))])
    IN  [err |-> err, ret |-> IF err = "ok" THEN Some(MechanicEntity(None, None, data)) ELSE None]

Autoservice(data) ==
    LET err == Validated(data,
                   [name |-> IF data.name = None THEN "ok" ELSE validate_name(Val(data.name)),
                    itn |-> IF data.itn = None THEN "ok" ELSE validate_itn(Val(data.itn)),
                    psrn |-> IF data.psrn = None THEN "ok" ELSE validate_psrn(Val(data.psrn))])
    IN  [err |-> err, ret |-> IF err = "ok" THEN Some(AutoserviceEntity(None, data)) ELSE None]

\* Names of 1, 2, 150 and 151 characters.
Name10 == "abcdefghij"
Name50 == Name10 \o Name10 \o Name10 \o Name10 \o Name10
Name150 == Name50 \o Name50 \o Name50
Name151 == Name150 \o "k"
EdgeNames == {"A", "Al", Name150, Name151}

\* Request bodies of POST /customers and PATCH /customers/{customer_id}.
CustomerNothing == [name |-> None, city |-> None]
CustomerPostBodies ==
    {p \in CustomerProfiles : p.name # None}
        \cup {[CustomerNothing EXCEPT !.name = Some(n)] : n \in EdgeNames}
CustomerPatchBodies ==
    CustomerProfiles \cup {[CustomerNothing EXCEPT !.name = Some(n)] : n \in EdgeNames}

\* Request bodies of POST /mechanics and PATCH /mechanics/{mechanic_id}.
MechanicNothing == CHOOSE p \in MechanicProfiles : \A a \in DOMAIN p : p[a] = None
\* A mechanic with every column set.
CompleteMechanic == CHOOSE p \in MechanicProfiles : \A a \in DOMAIN p : p[a] # None
MechanicPostBodies ==
    {CompleteMechanic} \cup {[CompleteMechanic EXCEPT !.name = Some(n)] : n \in EdgeNames}
MechanicPatchBodies ==
    MechanicProfiles \cup {[MechanicNothing EXCEPT !.name = Some(n)] : n \in EdgeNames}

\* Request bodies of POST /autoservices: the two complete ones, and the
\* first with another itn or psrn (9, 11 and 12 digits, a letter, a final
\* newline, a newline inside).
OtherItns == {"123456789", "12345678901", "123456789x", "1234567890\n", "12345\n67890"}
OtherPsrns == {"123456789012", "123456789012x", "1234567890123\n"}
AutoservicePostBodies ==
    {AutoserviceA, AutoserviceB}
        \cup {[AutoserviceA EXCEPT !.itn = Some(v)] : v \in OtherItns}
        \cup {[AutoserviceA EXCEPT !.psrn = Some(v)] : v \in OtherPsrns}

\* Request bodies of PATCH /autoservices/{autoservice_id}: AutoservicePatchDTO
\* includes name and description.
AutoservicePatchBodies ==
    {AutoserviceNothing, [AutoserviceNothing EXCEPT !.name = Some("Motor"), !.description = Some("engines")]}

\* ------------------------------------------------------ the three controllers
\* The except clauses of the handlers; an exception none of them names
\* leaves the handler and is answered with 500.
CreateStatus(err) ==
    IF err = "ok" THEN HTTP_201_CREATED
    ELSE IF err = "ClientException" THEN HTTP_400_BAD_REQUEST
    ELSE HTTP_500_INTERNAL_SERVER_ERROR

GetStatus(err) ==
    IF err = "ok" THEN HTTP_200_OK
    ELSE IF err \in {"CustomerNotFoundError", "MechanicNotFoundError", "AutoserviceNotFoundError"}
    THEN HTTP_404_NOT_FOUND
    ELSE HTTP_500_INTERNAL_SERVER_ERROR

\* A patch_customer handler that names the ownership error in no except
\* clause.
PatchCustomerStatusOwnershipUnnamed(err) ==
    IF err = "ok" THEN HTTP_200_OK
    ELSE IF err = "ClientException" THEN HTTP_400_BAD_REQUEST
    ELSE IF err = "CustomerNotFoundError" THEN HTTP_404_NOT_FOUND
    ELSE HTTP_500_INTERNAL_SERVER_ERROR

PatchCustomerStatus(err) ==
    IF err = "ok" THEN HTTP_200_OK
    ELSE IF err = "ClientException" THEN HTTP_400_BAD_REQUEST
    ELSE IF err = "CustomerNotFoundError" THEN HTTP_404_NOT_FOUND
    ELSE IF err = "CustomerBelongsToAnotherUserError" THEN HTTP_403_FORBIDDEN
    ELSE HTTP_500_INTERNAL_SERVER_ERROR

PatchMechanicStatus(err) ==
    IF err = "ok" THEN HTTP_200_OK
    ELSE IF err = "ClientException" THEN HTTP_400_BAD_REQUEST
    ELSE IF err = "MechanicNotFoundError" THEN HTTP_404_NOT_FOUND
    ELSE IF err = "MechanicBelongsToAnotherUserError" THEN HTTP_403_FORBIDDEN
    ELSE HTTP_500_INTERNAL_SERVER_ERROR

PatchAutoserviceStatus(err) ==
    IF err = "ok" THEN HTTP_200_OK
    ELSE IF err = "ClientException" THEN HTTP_400_BAD_REQUEST
    ELSE IF err = "AutoserviceNotFoundError" THEN HTTP_404_NOT_FOUND
    ELSE IF err \in {"AutoserviceUserNotFoundError", "AutoserviceUserDoesntHavePermissionsError"}
    THEN HTTP_403_FORBIDDEN
    ELSE HTTP_500_INTERNAL_SERVER_ERROR

\* GET /customers/{customer_id}
GetCustomerById(customer_id) ==
    LET out == get_customer_by_customer_id(customers, customer_id)
    IN  /\ service = "CustomerController"
        /\ result' = Response("GET /customers/{customer_id}", 0, customer_id, None, out.err,
                              GetStatus(out.err), out.ret)
        /\ UNCHANGED <<store, control>>

\* POST /customers
PostCustomer(body) ==
    LET uid == RequestUser(cookies)
        data == Customer(body)
        given == [Val(data.ret) EXCEPT !.customer_id = Some(NextId(CustomerIds \ DOMAIN customers))]
        out == IF data.err = "ok" THEN create_customer(customers, given, uid)
               ELSE [err |-> data.err, ret |-> None, table |-> customers]
        id == IF out.err = "ok" THEN Val(Val(out.ret).customer_id) ELSE 0
    IN  /\ service \in {"Client", "CustomerController"}
        /\ DOMAIN customers # CustomerIds
        /\ customers' = out.table
        /\ cookies' = IF out.err = "ok"
                      THEN ClientAfter(cookies, SentCookies(IdentityResponse(cookies, "customer_id", id)))
                      ELSE cookies
        /\ result' = Response("POST /customers", uid, id, body, out.err, CreateStatus(out.err), out.ret)
        /\ UNCHANGED <<mechanics, autoserviceTables, maintenanceTables, referenceTables, service, pending, now, blacklist_store>>

\* PATCH /customers/{customer_id}
PatchCustomerById(customer_id, body) ==
    LET uid == RequestUser(cookies)
        data == Customer(body)
        out == IF data.err = "ok" THEN patch_customer(customers, customer_id, Val(data.ret), uid)
               ELSE [err |-> data.err, ret |-> None, table |-> customers]
    IN  /\ service = "CustomerController"
        /\ customers' = out.table
        /\ result' = Response("PATCH /customers/{customer_id}", uid, customer_id, body, out.err,
                              PatchCustomerStatus(out.err), out.ret)
        /\ UNCHANGED <<mechanics, autoserviceTables, maintenanceTables, referenceTables, control>>

\* GET /mechanics/{mechanic_id}
GetMechanicById(mechanic_id) ==
    LET out == get_mechanic_by_mechanic_id(mechanics, mechanic_id)
    IN  /\ service = "MechanicController"
        /\ result' = Response("GET /mechanics/{mechanic_id}", 0, mechanic_id, None, out.err,
                              GetStatus(out.err), out.ret)
        /\ UNCHANGED <<store, control>>

\* POST /mechanics
PostMechanic(body) ==
    LET uid == RequestUser(cookies)
        data == Mechanic(body)
        given == [Val(data.ret) EXCEPT !.mechanic_id = Some(NextId(MechanicIds \ DOMAIN mechanics))]
        out == IF data.err = "ok" THEN create_mechanic(mechanics, given, uid)
               ELSE [err |-> data.err, ret |-> None, table |-> mechanics]
        id == IF out.err = "ok" THEN Val(Val(out.ret).mechanic_id) ELSE 0
    IN  /\ service \in {"Client", "MechanicController"}
        /\ DOMAIN mechanics # MechanicIds
        /\ mechanics' = out.table
        /\ cookies' = IF out.err = "ok"
                      THEN ClientAfter(cookies, SentCookies(IdentityResponse(cookies, "mechanic_id", id)))
                      ELSE cookies
        /\ result' = Response("POST /mechanics", uid, id, body, out.err, CreateStatus(out.err), out.ret)
        /\ UNCHANGED <<customers, autoserviceTables, maintenanceTables, referenceTables, service, pending, now, blacklist_store>>

\* PATCH /mechanics/{mechanic_id}
PatchMechanicById(mechanic_id, body) ==
    LET uid == RequestUser(cookies)
        data == Mechanic(body)
        out == IF data.err = "ok" THEN patch_mechanic(mechanics, mechanic_id, Val(data.ret), uid)
               ELSE [err |-> data.err, ret |-> None, table |-> mechanics]
    IN  /\ service = "MechanicController"
        /\ mechanics' = out.table
        /\ result' = Response("PATCH /mechanics/{mechanic_id}", uid, mechanic_id, body, out.err,
                              PatchMechanicStatus(out.err), out.ret)
        /\ UNCHANGED <<customers, autoserviceTables, maintenanceTables, referenceTables, control>>

\* GET /autoservices/{autoservice_id}
GetAutoserviceById(autoservice_id) ==
    LET out == get_autoservice_by_autoservice_id(autoservices, autoservice_id)
    IN  /\ service = "AutoserviceController"
        /\ result' = Response("GET /autoservices/{autoservice_id}", 0, autoservice_id, None, out.err,
                              GetStatus(out.err), out.ret)
        /\ UNCHANGED <<store, control>>

\* POST /autoservices
PostAutoservice(body) ==
    LET uid == RequestUser(cookies)
        data == Autoservice(body)
        given == [Val(data.ret) EXCEPT !.autoservice_id = Some(NextId(AutoserviceIds \ DOMAIN autoservices))]
        out == IF data.err = "ok" THEN create_autoservice(autoservices, autoservice_users, given, uid)
               ELSE [err |-> data.err, ret |-> None, table |-> autoservices, users |-> autoservice_users]
        id == IF out.err = "ok" THEN Val(Val(out.ret).autoservice_id) ELSE 0
    IN  /\ service \in {"Client", "AutoserviceController"}
        /\ DOMAIN autoservices # AutoserviceIds
        /\ autoservices' = out.table
        /\ autoservice_users' = out.users
        /\ cookies' = IF out.err = "ok"
                      THEN ClientAfter(cookies, SentCookies(IdentityResponse(cookies, "autoservice_id", id)))
                      ELSE cookies
        /\ result' = Response("POST /autoservices", uid, id, body, out.err, CreateStatus(out.err), out.ret)
        /\ UNCHANGED <<profileTables, maintenanceTables, referenceTables, service, pending, now, blacklist_store>>

\* PATCH /autoservices/{autoservice_id}
PatchAutoserviceById(autoservice_id, body) ==
    LET uid == RequestUser(cookies)
        data == Autoservice(body)
        out == IF data.err = "ok"
               THEN patch_autoservice(autoservices, autoservice_users, autoservice_id, uid, Val(data.ret))
               ELSE [err |-> data.err, ret |-> None, table |-> autoservices]
    IN  /\ service = "AutoserviceController"
        /\ autoservices' = out.table
        /\ result' = Response("PATCH /autoservices/{autoservice_id}", uid, autoservice_id, body, out.err,
                              PatchAutoserviceStatus(out.err), out.ret)
        /\ UNCHANGED <<profileTables, autoservice_users, maintenanceTables, referenceTables, control>>

\* ------------------------------------------------ Vehicle.validate_state_number
\* A plate is a sequence of characters.  A Latin letter, a digit and a
\* white-space character are written as themselves; a Cyrillic letter is
\* written by its Unicode name (CYR_TE is the capital letter TE, cyr_te the
\* small one), the module being ASCII.
Chars(s) == [i \in 1..Len(s) |-> SubSeq(s, i, i)]

LatinPlateLetters == {"A", "B", "E", "K", "M", "H", "O", "P", "C", "T", "Y", "X"}
CyrillicPlateLetters ==
    {"CYR_A", "CYR_VE", "CYR_IE", "CYR_KA", "CYR_EM", "CYR_EN", "CYR_O", "CYR_ER", "CYR_ES",
     "CYR_TE", "CYR_U", "CYR_HA"}

\* [АВЕКМНОРСТУХABEKMHOPCTYX]
PlateLetters == CyrillicPlateLetters \cup LatinPlateLetters

\* \s
Whitespace == {" ", "\t", "\n"}

\* str.upper(), on the small letters the plates below are written with.
Upper(c) ==
    CASE c = "a" -> "A" [] c = "b" -> "B" [] c = "c" -> "C" [] c = "e" -> "E"
      [] c = "t" -> "T" [] c = "x" -> "X" [] c = "z" -> "Z"
      [] c = "cyr_te" -> "CYR_TE" [] c = "cyr_a" -> "CYR_A"
      [] OTHER -> c

\* sub(r"\s+", "", state_number).upper()
Normalized(state_number) ==
    LET kept == SelectSeq(state_number, LAMBDA c : c \notin Whitespace)
    IN  [i \in 1..Len(kept) |-> Upper(kept[i])]

Rep(class, n) == [i \in 1..n |-> class]

\* The seven patterns, in the order of the tuple: the character classes from
\* ^ to $ with n digits (2 or 3) at the end, and the positions a (?<!000) or
\* (?<!0000) looks back over (none when first > last).
StateNumberPattern(k, n) ==
    CASE k = 1 -> [classes |-> Rep(PlateLetters, 1) \o Rep(Digits, 3) \o Rep(PlateLetters, 2) \o Rep(Digits, n),
                   first |-> 2, last |-> 4]
      [] k = 2 -> [classes |-> Rep(PlateLetters, 2) \o Rep(Digits, 3) \o Rep(Digits, n),
                   first |-> 3, last |-> 5]
      [] k = 3 -> [classes |-> Rep(Digits, 4) \o Rep(PlateLetters, 2) \o Rep(Digits, n),
                   first |-> 1, last |-> 4]
      [] k = 4 -> [classes |-> Rep(PlateLetters, 2) \o Rep(Digits, 3) \o Rep(PlateLetters, 1) \o Rep(Digits, n),
                   first |-> 3, last |-> 5]
      [] k = 5 -> [classes |-> Rep({"CYR_TE"}, 1) \o Rep(PlateLetters, 2) \o Rep(Digits, 3) \o Rep(Digits, n),
                   first |-> 4, last |-> 6]
      [] k = 6 -> [classes |-> Rep(PlateLetters, 2) \o Rep(Digits, 4), first |-> 1, last |-> 0]
      [] k = 7 -> [classes |-> Rep(Digits, 3) \o Rep(PlateLetters, 2) \o Rep(Digits, n),
                   first |-> 1, last |-> 0]

StateNumberFormats == 1..7
FinalDigits == {2, 3}

\* match(pattern, state_number, IGNORECASE), on a plate in capital letters
\* and without white space.
MatchesPattern(plate, pattern) ==
    /\ Len(plate) = Len(pattern.classes)
    /\ \A i \in 1..Len(plate) : plate[i] \in pattern.classes[i]
    /\ pattern.first <= pattern.last => \E i \in pattern.first..pattern.last : plate[i] # "0"

MatchesFormat(plate, k) == \E n \in FinalDigits : MatchesPattern(plate, StateNumberPattern(k, n))

MinStateNumberLength == 8
MaxStateNumberLength == 12

\* if len(state_number) < 8 or len(state_number) > 12
StateNumberLengthRefused(plate) ==
    Len(plate) < MinStateNumberLength \/ Len(plate) > MaxStateNumberLength

\* Vehicle.validate_state_number: the value the attribute gets, or the
\* exception.
validate_state_number(state_number) ==
    IF state_number = None THEN [err |-> "ok", ret |-> None]
    ELSE LET plate == Normalized(Val(state_number))
         IN  IF StateNumberLengthRefused(plate) THEN [err |-> "ClientException", ret |-> None]
             ELSE IF \E k \in StateNumberFormats : MatchesFormat(plate, k)
             THEN [err |-> "ok", ret |-> Some(plate)]
             ELSE [err |-> "ClientException", ret |-> None]

\* Plates of the seven formats with two and with three final digits, some
\* written with small letters and white space, some with 000, and some of
\* no format.
StateNumbers ==
    {Chars("A123BC77"), Chars("a 123 bc 777"), Chars("A000BC77"), Chars("A123BC7"),
     Chars("AB12377"), Chars("AB123777"), Chars("AB000777"),
     Chars("1234AB77"), Chars("1234ab777"), Chars("0000AB77"),
     Chars("AB123C77"), Chars("AB123C777"),
     <<"CYR_TE">> \o Chars("AB12377"), <<"cyr_te">> \o Chars("ab 123 777"), Chars("TAB12377"),
     Chars("AB1234"), <<"CYR_A", "CYR_VE">> \o Chars("1234"), Chars("AB 1234\n"),
     Chars("123AB77"), Chars("123AB777"),
     Chars("A123BC7777"), Chars("Z123BC77"), Chars("12345678")}

\* -------------------------------------------------- the session of a request
\* A handler that commits what its session has flushed, whatever it answers.
autocommit_always_commits(status, committed, flushed) == flushed

\* before_send_handler = "autocommit": the session of the request is committed
\* when the response has a 2xx status and rolled back when it has not.
autocommit(status, committed, flushed) ==
    IF status \in 200..299 THEN flushed ELSE committed

\* POST /autoservices when the database refuses the insert of the owner row
\* (the connection is lost, the statement times out): create_autoservice has
\* flushed the autoservice, create_autoservice_owner raises, and the
\* exception leaves the handler.
PostAutoserviceOwnerRefused(body) ==
    LET uid == RequestUser(cookies)
        data == Autoservice(body)
        given == [Val(data.ret) EXCEPT !.autoservice_id = Some(NextId(AutoserviceIds \ DOMAIN autoservices))]
        created == base_create_autoservice(autoservices, given)
        err == "DBAPIError"
        out == autocommit(CreateStatus(err),
                          [table |-> autoservices, users |-> autoservice_users],
                          [table |-> created.table, users |-> autoservice_users])
    IN  /\ service = "AutoserviceController"
        /\ DOMAIN autoservices # AutoserviceIds
        /\ data.err = "ok"
        /\ created.err = "ok"
        /\ autoservices' = out.table
        /\ autoservice_users' = out.users
        /\ result' = Response("POST /autoservices", uid, 0, body, err, CreateStatus(err), None)
        /\ UNCHANGED <<profileTables, maintenanceTables, referenceTables, control>>

\* ------------------------------------------------------------ created_at
\* Time passes between the requests.
Tick ==
    /\ now < MaxNow
    /\ now' = now + 1
    /\ UNCHANGED <<store, service, pending, cookies, blacklist_store, result>>

\* default=datetime.now(ZoneInfo("Europe/Moscow")) of the three created_at
\* columns: the argument is evaluated when the class body is executed, and
\* its value is the default of every insert.
CreatedAtDefault == ImportTime

\* The insert of an entity whose created_at is not set takes the default of
\* the column.
WithCreatedAt(entity) ==
    [a \in DOMAIN entity \cup {"created_at"} |->
        IF a # "created_at" THEN entity[a]
        ELSE IF "created_at" \in DOMAIN entity /\ entity[a] # None THEN entity[a]
        ELSE Some(CreatedAtDefault)]

\* ------------------------------------------------------------- user_auth
\* The jti values of the tokens.
Jtis == 1..MaxIds

\* The claims of a decoded token that the handlers read: sub is the text of
\* a uid (str(uid)), the empty text, or missing; jti is a value or missing.
Token(sub, jti) == [sub |-> sub, jti |-> jti]

EmptyText == <<>>

Tokens ==
    {Token(sub, jti) : sub \in {None, Some(EmptyText)} \cup {Some(Str(u)) : u \in Uids}, jti \in Opt(Jtis)}

\* UUID(text), of the text of a uid.
UUID(text) == text[2]

\* retrieve_user_handler: "if not token.sub" holds of a missing and of an
\* empty sub.
retrieve_user_handler(token) ==
    IF token.sub \in {None, Some(EmptyText)} THEN None ELSE Some([uid |-> UUID(Val(token.sub))])

\* Store.get(key)
StoreGet(stored, key) == IF key \in DOMAIN stored THEN Some(stored[key]) ELSE None

\* A revoked_token_handler that lets a token without jti through.
revoked_token_handler_without_jti_test(token, stored) ==
    token.jti # None /\ StoreGet(stored, Val(token.jti)) # None

\* revoked_token_handler
revoked_token_handler(token, stored) ==
    IF token.jti = None THEN TRUE
    ELSE StoreGet(stored, Val(token.jti)) # None

\* The values the service that revokes tokens stores under a jti.
BlacklistValues == {"", "revoked"}

\* The service that issues the tokens revokes one: it sets the jti in the
\* store.  This application only reads the store.
Revoke(jti, value) ==
    /\ service = "Authentication"
    /\ jti \notin DOMAIN blacklist_store
    /\ blacklist_store' = Put(blacklist_store, jti, value)
    /\ UNCHANGED <<store, service, pending, cookies, now, result>>

\* The authentication middleware on a request with a token that decodes: it
\* calls the two handlers and raises NotAuthorizedException when there is no
\* user or the token is reported revoked.
AuthenticateRequest(token) ==
    LET user == retrieve_user_handler(token)
        token_revoked == revoked_token_handler(token, blacklist_store)
        err == IF user = None \/ token_revoked THEN "NotAuthorizedException" ELSE "ok"
    IN  /\ service = "Authentication"
        /\ result' = Outcome("authenticate_request", 0, 0, err,
                             Some([token |-> token, user |-> user, token_revoked |-> token_revoked]))
        /\ UNCHANGED <<store, control>>

\* ----------------------------------------------------------- VehicleService
\* Vehicles a behaviour stores before it stops sending POST /vehicle.
MaxVehicles == 1

\* What VehiclePostDTO builds: no vehicle_id, the four references (ids that
\* may or may not be stored), and neither plate nor VIN.
Vehicle(vehicle_id, vehicle_brand_id, vehicle_model_id, vehicle_generation_id, customer_id) ==
    [vehicle_id |-> vehicle_id, state_number |-> None, vin |-> None,
     vehicle_brand_id |-> Some(vehicle_brand_id), vehicle_model_id |-> Some(vehicle_model_id),
     vehicle_generation_id |-> Some(vehicle_generation_id), customer_id |-> Some(customer_id)]

NewVehicles ==
    {Vehicle(None, b, m, g, c) :
        b \in VehicleBrandIds, m \in VehicleModelIds, g \in VehicleGenerationIds, c \in CustomerIds}

\* Bodies with a plate, of the first brand, model, generation and customer.
VehiclesWithStateNumber ==
    {[Vehicle(None, 1, 1, 1, 1) EXCEPT !.state_number = Some(plate)] : plate \in StateNumbers}

\* A brand/model test that lets every model through.
ModelOfAnotherBrandSkipped(vehicle_model, vehicle_brand) == FALSE

\* CommonVehicleService.validate_vehicle_params' first comparison.
ModelOfAnotherBrand(vehicle_model, vehicle_brand) ==
    vehicle_model.vehicle_brand_id # vehicle_brand.vehicle_brand_id

\* CommonVehicleService.validate_vehicle_params' second comparison.
GenerationOfAnotherModel(vehicle_generation, vehicle_model) ==
    vehicle_generation.vehicle_model_id # vehicle_model.vehicle_model_id

\* CommonVehicleService.validate_vehicle_params
validate_vehicle_params(brands, models, generations, vehicle_brand_id, vehicle_model_id, vehicle_generation_id) ==
    LET vehicle_brand == get_vehicle_brand_by_vehicle_brand_id(brands, vehicle_brand_id)
        vehicle_model == get_vehicle_model_by_vehicle_model_id(models, vehicle_model_id)
        vehicle_generation ==
            get_vehicle_generation_by_vehicle_generation_id(generations, vehicle_generation_id)
    IN  IF vehicle_brand.err # "ok" THEN [err |-> vehicle_brand.err]
        ELSE IF vehicle_model.err # "ok" THEN [err |-> vehicle_model.err]
        ELSE IF ModelOfAnotherBrand(Val(vehicle_model.ret), Val(vehicle_brand.ret))
        THEN [err |-> "VehicleModelDoesntMatchWithVehicleBrandError"]
        ELSE IF vehicle_generation.err # "ok" THEN [err |-> vehicle_generation.err]
        ELSE IF GenerationOfAnotherModel(Val(vehicle_generation.ret), Val(vehicle_model.ret))
        THEN [err |-> "VehicleGenerationDoesntMatchWithVehicleModelError"]
        ELSE [err |-> "ok"]

\* Vehicle.__table__: primary key, UNIQUE vin, the four NOT NULL foreign keys.
VehicleInsertViolates(table, brands, models, generations, custs, vehicle) ==
    \/ Val(vehicle.vehicle_id) \in DOMAIN table
    \/ \E k \in DOMAIN table : vehicle.vin # None /\ table[k].vin = vehicle.vin
    \/ vehicle.vehicle_brand_id = None \/ vehicle.vehicle_model_id = None
    \/ vehicle.vehicle_generation_id = None \/ vehicle.customer_id = None
    \/ \E b \in vehicle.vehicle_brand_id : b \notin DOMAIN brands
    \/ \E m \in vehicle.vehicle_model_id : m \notin DOMAIN models
    \/ \E g \in vehicle.vehicle_generation_id : g \notin DOMAIN generations
    \/ \E c \in vehicle.customer_id : c \notin DOMAIN custs

\* BaseVehicleService.create_vehicle.  The primary key default (uuid7) is
\* applied when the row is inserted: fresh is that value.
base_create_vehicle(table, brands, models, generations, custs, vehicle, fresh) ==
    LET given == IF vehicle.vehicle_id = None THEN [vehicle EXCEPT !.vehicle_id = Some(fresh)] ELSE vehicle
    IN  IF VehicleInsertViolates(table, brands, models, generations, custs, given)
        THEN [err |-> "IntegrityError", ret |-> None, table |-> table]
        ELSE [err |-> "ok", ret |-> Some(given),
              table |-> Put(table, Val(given.vehicle_id), RowOf(given, "vehicle_id"))]

\* VehicleService.create_vehicle.  The requesting user is no argument of it.
create_vehicle(table, brands, models, generations, custs, vehicle, fresh) ==
    LET params == validate_vehicle_params(brands, models, generations, Val(vehicle.vehicle_brand_id),
                                          Val(vehicle.vehicle_model_id), Val(vehicle.vehicle_generation_id))
        customer == get_customer_by_customer_id(custs, Val(vehicle.customer_id))
    IN  IF params.err # "ok" THEN [err |-> params.err, ret |-> None, table |-> table]
        ELSE IF customer.err # "ok" THEN [err |-> customer.err, ret |-> None, table |-> table]
        ELSE base_create_vehicle(table, brands, models, generations, custs, vehicle, fresh)

\* --------------------------------------------------------- VehicleController
\* A handler whose except clause does not name CustomerNotFoundError.
VehicleConflictErrorsWithoutCustomer ==
    {"VehicleBrandNotFoundError", "VehicleModelNotFoundError",
     "VehicleGenerationNotFoundError", "VehicleModelDoesntMatchWithVehicleBrandError",
     "VehicleGenerationDoesntMatchWithVehicleModelError"}

\* The except clause of VehicleController.create_vehicle.
VehicleConflictErrors ==
    {"CustomerNotFoundError", "VehicleBrandNotFoundError", "VehicleModelNotFoundError",
     "VehicleGenerationNotFoundError", "VehicleModelDoesntMatchWithVehicleBrandError",
     "VehicleGenerationDoesntMatchWithVehicleModelError"}

CreateVehicleStatus(err) ==
    IF err = "ok" THEN HTTP_201_CREATED
    ELSE IF err \in VehicleConflictErrors THEN HTTP_409_CONFLICT
    ELSE IF err = "ClientException" THEN HTTP_400_BAD_REQUEST
    ELSE HTTP_500_INTERNAL_SERVER_ERROR

\* The Vehicle that VehiclePostDTO builds of a body: the validator of
\* state_number runs when the attribute is assigned, before the handler.
VehicleOf(data) ==
    LET state_number == validate_state_number(data.state_number)
    IN  IF state_number.err # "ok" THEN [err |-> state_number.err, ret |-> None]
        ELSE [err |-> "ok", ret |-> Some([data EXCEPT !.state_number = state_number.ret])]

\* POST /vehicle.  The handler does not take the request: the user who sends
\* it (uid) is authenticated by the middleware and then left unread.
CreateVehicle(data) ==
    LET uid == RequestUser(cookies)
        built == VehicleOf(data)
        out == IF built.err # "ok" THEN [err |-> built.err, ret |-> None, table |-> vehicles]
               ELSE create_vehicle(vehicles, vehicle_brands, vehicle_models, vehicle_generations,
                                   customers, Val(built.ret), NextId(VehicleIds \ DOMAIN vehicles))
        id == IF out.err = "ok" THEN Val(Val(out.ret).vehicle_id) ELSE 0
    IN  /\ service = "VehicleController"
        /\ Cardinality(DOMAIN vehicles) < MaxVehicles
        /\ vehicles' = out.table
        /\ result' = Response("create_vehicle", uid, id, data, out.err, CreateVehicleStatus(out.err), out.ret)
        /\ UNCHANGED <<profileTables, autoserviceTables, maintenanceTables, countries, vehicle_brands,
                       vehicle_models, vehicle_generations, provided_maintenance_types, control>>
\* ---------------------------------------------------------- specifications
EmptyBagTable == EmptyBag

EmptyProfiles == customers = EmptyTable /\ mechanics = EmptyTable

EmptyAutoservices == autoservices = EmptyTable /\ autoservice_users = EmptyBagTable

EmptyMaintenance ==
    /\ provided_maintenance = EmptyTable
    /\ country_associations = EmptyBagTable
    /\ vehicle_brand_associations = EmptyBagTable

EmptyReference ==
    /\ vehicles = EmptyTable
    /\ countries = EmptyTable
    /\ vehicle_brands = EmptyTable
    /\ vehicle_models = EmptyTable
    /\ vehicle_generations = EmptyTable
    /\ provided_maintenance_types = EmptyTable

\* The customer and the mechanic service over an empty database.
Init ==
    /\ EmptyProfiles /\ EmptyAutoservices /\ EmptyMaintenance /\ EmptyReference
    /\ service \in {"CustomerService", "MechanicService"}
    /\ pending = EmptyBag
    /\ now = ImportTime
    /\ blacklist_store = EmptyTable
    /\ cookies = NoCookies
    /\ result = NoResult

Next ==
    \/ \E i \in CustomerIds : GetCustomer(i)
    \/ \E u \in Uids, c \in CustomerEntities : CreateCustomer(u, c)
    \/ \E u \in Uids, i \in CustomerIds, c \in CustomerEntities : PatchCustomer(u, i, c)
    \/ \E i \in MechanicIds : GetMechanic(i)
    \/ \E u \in Uids, m \in MechanicEntities : CreateMechanic(u, m)
    \/ \E u \in Uids, i \in MechanicIds, m \in MechanicEntities : PatchMechanic(u, i, m)

Spec == Init /\ [][Next]_vars

\* The rows the database holds before the autoservice service is exercised:
\* nothing, or autoservice 1 with AutoserviceUser rows whose permission lists
\* are narrower than an owner's (no service method writes such a row; they
\* are inserted directly, as the test fixtures do).
SeedAutoservice == <<AutoserviceDefaults(RowOf(AutoserviceEntity(Some(1), AutoserviceA), "autoservice_id"))>>

AutoserviceSeeds == {
    [autoservices |-> EmptyTable, users |-> EmptyBagTable],
    [autoservices |-> SeedAutoservice,
     users |-> SetToBag({AutoserviceUser(1, 1, {})})],
    [autoservices |-> SeedAutoservice,
     users |-> SetToBag({AutoserviceUser(1, 1, {autoservice_manage}),
                         AutoserviceUser(2, 1, {autoservice_manage_provided_maintenance})})] }

InitAutoservice ==
    /\ EmptyProfiles /\ EmptyMaintenance /\ EmptyReference
    /\ \E seed \in AutoserviceSeeds :
          autoservices = seed.autoservices /\ autoservice_users = seed.users
    /\ service = "AutoserviceService"
    /\ pending = EmptyBag
    /\ now = ImportTime
    /\ blacklist_store = EmptyTable
    /\ cookies = NoCookies
    /\ result = NoResult

NextAutoservice ==
    \/ \E i \in AutoserviceIds : GetAutoservice(i)
    \/ \E u \in Uids, a \in NewAutoservices : CreateAutoservice(u, a)
    \/ \E u \in Uids, i \in AutoserviceIds : ValidateManageProvidedMaintenance(u, i)
    \/ \E u \in Uids, i \in AutoserviceIds, a \in ChangedAutoservices : PatchAutoservice(u, i, a)

SpecAutoservice == InitAutoservice /\ [][NextAutoservice]_vars



\* The rows the create methods store for the entity with id i that user i
\* created.
CustomerRow(i) ==
    create_customer(EmptyTable,
                    CustomerEntity(Some(i), None, [name |-> Some("Ann"), city |-> Some("Omsk")]), i).table[i]

MechanicRow(i) == create_mechanic(EmptyTable, MechanicEntity(Some(i), None, CompleteMechanic), i).table[i]

AutoserviceRow(i) == base_create_autoservice(EmptyTable, AutoserviceEntity(Some(i), AutoserviceA)).table[i]

ProvidedMaintenanceRow(i) ==
    RowOf(ProvidedMaintenance(Some(i), Some(i), Some(i), None), "provided_maintenance_id")

\* The services that look an entity up by its id.
LookupServices ==
    {"CustomerService", "MechanicService", "AutoserviceService", "VehicleService",
     "BaseProvidedMaintenanceService", "ProvidedMaintenanceTypeService", "CountryService",
     "VehicleBrandService", "VehicleModelService", "VehicleGenerationService"}

\* A database for the lookups: the ids `roots` are stored in the tables that
\* refer to no other table, the ids `leaves` (of which every one is a root,
\* as the foreign keys demand) in the tables that do.
InitLookup ==
    /\ \E roots \in SUBSET (1..MaxIds) : \E leaves \in SUBSET roots :
          /\ customers = [i \in roots |-> CustomerRow(i)]
          /\ mechanics = [i \in roots |-> MechanicRow(i)]
          /\ autoservices = [i \in roots |-> AutoserviceRow(i)]
          /\ autoservice_users = SetToBag({AutoserviceUser(i, i, OwnerPermissions) : i \in roots})
          /\ countries = [i \in roots |-> CountryRow(i)]
          /\ provided_maintenance_types = [i \in roots |-> ProvidedMaintenanceTypeRow(i)]
          /\ vehicle_brands = [i \in leaves |-> VehicleBrandRow(i)]
          /\ vehicle_models = [i \in leaves |-> VehicleModelRow(i)]
          /\ vehicle_generations = [i \in leaves |-> VehicleGenerationRow(i)]
          /\ vehicles = [i \in leaves |-> VehicleRow(i)]
          /\ provided_maintenance = [i \in leaves |-> ProvidedMaintenanceRow(i)]
    /\ country_associations = EmptyBagTable
    /\ vehicle_brand_associations = EmptyBagTable
    /\ service \in LookupServices
    /\ pending = EmptyBag
    /\ now = ImportTime
    /\ blacklist_store = EmptyTable
    /\ cookies = NoCookies
    /\ result = NoResult

NextLookup ==
    \/ \E i \in CustomerIds : GetCustomer(i)
    \/ \E i \in MechanicIds : GetMechanic(i)
    \/ \E i \in AutoserviceIds : GetAutoservice(i)
    \/ \E i \in VehicleIds : GetVehicle(i)
    \/ \E i \in ProvidedMaintenanceIds : GetProvidedMaintenance(i)
    \/ \E i \in ProvidedMaintenanceTypeIds : GetProvidedMaintenanceType(i)
    \/ \E i \in CountryIds : GetCountry(i)
    \/ \E i \in VehicleBrandIds : GetVehicleBrand(i)
    \/ \E i \in VehicleModelIds : GetVehicleModel(i)
    \/ \E i \in VehicleGenerationIds : GetVehicleGeneration(i)

SpecLookup == InitLookup /\ [][NextLookup]_vars

\* The mechanics and autoservices the maintenance controller works over.  In
\* the first, user 1 has created mechanic 1 and autoservice 1, and the other
\* users have nothing.  In the second, mechanic 1 is user 2's, and autoservice
\* 1 has a manager without autoservice:manage_provided_maintenance (user 1)
\* and one with that permission alone (user 2).
OwnedAutoservice ==
    create_autoservice(EmptyTable, EmptyBagTable, AutoserviceEntity(Some(1), AutoserviceA), 1)

MaintenanceWorlds == {
    [mechanics |-> [i \in {1} |-> MechanicRow(i)],
     autoservices |-> OwnedAutoservice.table,
     users |-> OwnedAutoservice.users],
    [mechanics |-> create_mechanic(EmptyTable, MechanicEntity(Some(1), None, CompleteMechanic), 2).table,
     autoservices |-> SeedAutoservice,
     users |-> SetToBag({AutoserviceUser(1, 1, {autoservice_manage}),
                         AutoserviceUser(2, 1, {autoservice_manage_provided_maintenance})})] }

\* The world, and the reference rows with id 1 (the other ids are those of
\* rows that do not exist).
InWorld(world) ==
    /\ customers = EmptyTable
    /\ mechanics = world.mechanics
    /\ autoservices = world.autoservices
    /\ autoservice_users = world.users
    /\ provided_maintenance_types = [i \in {1} |-> ProvidedMaintenanceTypeRow(i)]
    /\ countries = [i \in {1} |-> CountryRow(i)]
    /\ vehicle_brands = [i \in {1} |-> VehicleBrandRow(i)]
    /\ vehicle_models = EmptyTable
    /\ vehicle_generations = EmptyTable
    /\ vehicles = EmptyTable

\* POST /maintenance/provided_maintenance over an empty provided_maintenance
\* table.
InitMaintenance ==
    /\ \E world \in MaintenanceWorlds : InWorld(world)
    /\ EmptyMaintenance
    /\ service = "MaintenanceController"
    /\ pending = EmptyBag
    /\ now = ImportTime
    /\ blacklist_store = EmptyTable
    /\ cookies = NoCookies
    /\ result = NoResult

NextMaintenance ==
    \E u \in Uids, data \in NewProvidedMaintenance : CreateProvidedMaintenance(u, data)

SpecMaintenance == InitMaintenance /\ [][NextMaintenance]_vars

\* The provided_maintenance tables one more request to
\* POST /maintenance/provided_maintenance leads to.
MaintenanceAfter(world, tables) ==
    {create_provided_maintenance(
         t, [i \in {1} |-> ProvidedMaintenanceTypeRow(i)], world.mechanics, world.autoservices, world.users,
         data, u, NextProvidedMaintenanceId(ProvidedMaintenanceIds \ DOMAIN t)).table :
       t \in {x \in tables : DOMAIN x # ProvidedMaintenanceIds}, u \in Uids, data \in NewProvidedMaintenance}
    \cup tables

\* The association handlers over the maintenance that up to two requests
\* have created.
InitAssociation ==
    /\ \E world \in MaintenanceWorlds :
          /\ InWorld(world)
          /\ provided_maintenance \in MaintenanceAfter(world, MaintenanceAfter(world, {EmptyTable}))
    /\ country_associations = EmptyBagTable
    /\ vehicle_brand_associations = EmptyBagTable
    /\ service = "MaintenanceController"
    /\ pending = EmptyBag
    /\ now = ImportTime
    /\ blacklist_store = EmptyTable
    /\ cookies = NoCookies
    /\ result = NoResult

NextAssociation ==
    \/ \E u \in Uids, data \in NewCountryAssociations : CreateCountryAssociation(u, data)
    \/ \E u \in Uids, data \in NewVehicleBrandAssociations : CreateVehicleBrandAssociation(u, data)

SpecAssociation == InitAssociation /\ [][NextAssociation]_vars

\* The association handlers interleaved at the await before their insert,
\* over the maintenance that one request has created.
InitRace ==
    /\ \E world \in MaintenanceWorlds :
          /\ InWorld(world)
          /\ provided_maintenance \in MaintenanceAfter(world, {EmptyTable})
    /\ country_associations = EmptyBagTable
    /\ vehicle_brand_associations = EmptyBagTable
    /\ service = "MaintenanceController"
    /\ pending = EmptyBag
    /\ now = ImportTime
    /\ blacklist_store = EmptyTable
    /\ cookies = NoCookies
    /\ result = NoResult

RequestsInFlight == BagToSet(pending)

NextRace ==
    \/ \E u \in Uids, data \in NewCountryAssociations : BeginCountryAssociation(u, data)
    \/ \E u \in Uids, data \in NewVehicleBrandAssociations : BeginVehicleBrandAssociation(u, data)
    \/ \E request \in RequestsInFlight : FinishCountryAssociation(request)
    \/ \E request \in RequestsInFlight : FinishVehicleBrandAssociation(request)

SpecRace == InitRace /\ [][NextRace]_vars


\* POST /vehicle over an empty vehicles table.  The reference tables hold the
\* brands 1..b, the models 1..m of them and the generations 1..g of those
\* (the foreign keys demand g <= m <= b), and the customers 1..c, customer i
\* being user i's; the ids above are those of rows that do not exist.  Of
\* the brands all or all but the last are stored, of these all or all but the
\* last have a model, every model has a generation, and the last customer is
\* stored with the last brand.
InitVehicle ==
    /\ \E b \in {MaxIds - 1, MaxIds} : \E m \in {b - 1, b} : \E g \in {m} :
       \E c \in {IF b = MaxIds THEN MaxUsers ELSE MaxUsers - 1} :
          /\ vehicle_brands = [i \in 1..b |-> VehicleBrandRow(i)]
          /\ vehicle_models = [i \in 1..m |-> VehicleModelRow(i)]
          /\ vehicle_generations = [i \in 1..g |-> VehicleGenerationRow(i)]
          /\ customers = [i \in (1..c) \cap CustomerIds |-> CustomerRow(i)]
    /\ countries = [i \in CountryIds |-> CountryRow(i)]
    /\ vehicles = EmptyTable
    /\ mechanics = EmptyTable
    /\ provided_maintenance_types = EmptyTable
    /\ EmptyAutoservices /\ EmptyMaintenance
    /\ service = "VehicleController"
    /\ pending = EmptyBag
    /\ now = ImportTime
    /\ blacklist_store = EmptyTable
    /\ \E u \in Uids : cookies = [k \in {jwt_token_cookie_key} |-> u]
    /\ result = NoResult

NextVehicle ==
    \E data \in NewVehicles : CreateVehicle(data)

SpecVehicle == InitVehicle /\ [][NextVehicle]_vars

\* POST /vehicle with bodies that carry a plate, over the same tables.
NextStateNumber ==
    \E data \in VehiclesWithStateNumber : CreateVehicle(data)

SpecStateNumber == InitVehicle /\ [][NextStateNumber]_vars

\* A client that is logged in (it holds the JWT of a user and no identity
\* cookie) and sends the three POSTs that create an identity, with bodies
\* the validators accept, over an empty database.
InitClient ==
    /\ EmptyProfiles /\ EmptyAutoservices /\ EmptyMaintenance /\ EmptyReference
    /\ service = "Client"
    /\ pending = EmptyBag
    /\ now = ImportTime
    /\ blacklist_store = EmptyTable
    /\ \E u \in Uids : cookies = [k \in {jwt_token_cookie_key} |-> u]
    /\ result = NoResult

NextClient ==
    \/ \E data \in CustomerPostBodies \cap CustomerProfiles : PostCustomer(data)
    \/ \E data \in MechanicPostBodies \cap MechanicProfiles : PostMechanic(data)
    \/ \E data \in AutoservicePostBodies \cap {AutoserviceA, AutoserviceB} : PostAutoservice(data)

SpecClient == InitClient /\ [][NextClient]_vars

\* The four controllers, each over the tables it works on.  The client holds
\* the JWT of some user; the customer and the mechanic controller start
\* from an empty table or from one that holds what user 1 created, the
\* autoservice controller from an empty table or from an autoservice with two
\* managers, and the maintenance controller from the worlds above and no
\* maintenance; it is followed up to the first maintenance stored and the
\* associations made for it.
InitControllers ==
    /\ \/ /\ service = "CustomerController"
          /\ customers \in {EmptyTable, [i \in {1} |-> CustomerRow(i)]}
          /\ mechanics = EmptyTable
          /\ EmptyAutoservices /\ EmptyReference
          /\ \E u \in Uids : cookies = [k \in {jwt_token_cookie_key} |-> u]
       \/ /\ service = "MechanicController"
          /\ customers = EmptyTable
          /\ mechanics \in {EmptyTable, [i \in {1} |-> MechanicRow(i)]}
          /\ EmptyAutoservices /\ EmptyReference
          /\ \E u \in Uids : cookies = [k \in {jwt_token_cookie_key} |-> u]
       \/ /\ service = "AutoserviceController"
          /\ EmptyProfiles /\ EmptyReference
          /\ \E seed \in AutoserviceSeeds :
                /\ Cardinality(BagToSet(seed.users)) # 1
                /\ autoservices = seed.autoservices /\ autoservice_users = seed.users
          /\ \E u \in Uids : cookies = [k \in {jwt_token_cookie_key} |-> u]
       \/ /\ service = "MaintenanceController"
          /\ \E world \in MaintenanceWorlds : InWorld(world)
          /\ cookies = NoCookies
    /\ EmptyMaintenance
    /\ pending = EmptyBag
    /\ now = ImportTime
    /\ blacklist_store = EmptyTable
    /\ result = NoResult

NextControllers ==
    \/ \E i \in CustomerIds : GetCustomerById(i)
    \/ \E body \in CustomerPostBodies : PostCustomer(body)
    \/ \E i \in CustomerIds, body \in CustomerPatchBodies : PatchCustomerById(i, body)
    \/ \E i \in MechanicIds : GetMechanicById(i)
    \/ \E body \in MechanicPostBodies : PostMechanic(body)
    \/ \E i \in MechanicIds, body \in MechanicPatchBodies : PatchMechanicById(i, body)
    \/ \E i \in AutoserviceIds : GetAutoserviceById(i)
    \/ \E body \in AutoservicePostBodies : PostAutoservice(body)
    \/ \E i \in AutoserviceIds, body \in AutoservicePatchBodies : PatchAutoserviceById(i, body)
    \/ \E u \in Uids, data \in NewProvidedMaintenance :
          provided_maintenance = EmptyTable /\ CreateProvidedMaintenance(u, data)
    \/ \E u \in Uids, data \in NewCountryAssociations : CreateCountryAssociation(u, data)
    \/ \E u \in Uids, data \in NewVehicleBrandAssociations : CreateVehicleBrandAssociation(u, data)

SpecControllers == InitControllers /\ [][NextControllers]_vars

\* create_customer and create_mechanic, and the lookups that read the
\* stored records back, over an empty database.
NextCreate ==
    \/ \E i \in CustomerIds : GetCustomer(i)
    \/ \E i \in MechanicIds : GetMechanic(i)
    \/ \E u \in Uids, c \in CustomerEntities : CreateCustomer(u, c)
    \/ \E u \in Uids, m \in MechanicEntities : CreateMechanic(u, m)

SpecCreate == Init /\ [][NextCreate]_vars

\* Mechanic 1 is user 1's and autoservice 1 has AutoserviceUser rows for
\* users 1 and 2.  In the first world user 1 holds autoservice:manage only
\* and user 2 autoservice:manage_provided_maintenance only; in the second
\* user 1 has created the autoservice and user 2 holds
\* autoservice:manage_provided_maintenance only.
SharedWorlds == {
    [mechanics |-> [i \in {1} |-> MechanicRow(i)],
     autoservices |-> SeedAutoservice,
     users |-> SetToBag({AutoserviceUser(1, 1, {autoservice_manage}),
                         AutoserviceUser(2, 1, {autoservice_manage_provided_maintenance})})],
    [mechanics |-> [i \in {1} |-> MechanicRow(i)],
     autoservices |-> OwnedAutoservice.table,
     users |-> OwnedAutoservice.users
                   (+) SetToBag({AutoserviceUser(2, 1, {autoservice_manage_provided_maintenance})})] }

\* The maintenance controller over these worlds, followed up to the first
\* maintenance stored and the associations made for it.
InitShared ==
    /\ \E world \in SharedWorlds : InWorld(world)
    /\ EmptyMaintenance
    /\ service = "MaintenanceController"
    /\ pending = EmptyBag
    /\ now = ImportTime
    /\ blacklist_store = EmptyTable
    /\ cookies = NoCookies
    /\ result = NoResult

NextShared ==
    \/ \E u \in Uids, data \in NewProvidedMaintenance :
          provided_maintenance = EmptyTable /\ CreateProvidedMaintenance(u, data)
    \/ \E u \in Uids, data \in NewCountryAssociations : CreateCountryAssociation(u, data)
    \/ \E u \in Uids, data \in NewVehicleBrandAssociations : CreateVehicleBrandAssociation(u, data)

SpecShared == InitShared /\ [][NextShared]_vars

\* Concurrent create_customer (create_mechanic) calls over empty tables, with
\* records that have no id yet and every column the table demands.
NewCustomers == {c \in CustomerEntities : c.customer_id = None /\ c.name # None}
NewMechanics ==
    {m \in MechanicEntities :
        m.mechanic_id = None /\ \A a \in {"name", "city", "private", "mobile"} : m[a] # None}

NextProfileRace ==
    \/ \E u \in Uids, c \in NewCustomers : BeginCreateCustomer(u, c)
    \/ \E request \in RequestsInFlight : FinishCreateCustomer(request)
    \/ \E u \in Uids, m \in NewMechanics : BeginCreateMechanic(u, m)
    \/ \E request \in RequestsInFlight : FinishCreateMechanic(request)

SpecProfileRace == Init /\ [][NextProfileRace]_vars

\* The autoservice handlers over a database that is empty or holds the one
\* autoservice that a user has created with POST /autoservices.
CreatedAutoservices ==
    {[autoservices |-> EmptyTable, users |-> EmptyBagTable]}
        \cup {[autoservices |-> created.table, users |-> created.users] :
                created \in {create_autoservice(EmptyTable, EmptyBagTable,
                                                AutoserviceEntity(Some(1), AutoserviceA), u) : u \in Uids}}

InitOwner ==
    /\ EmptyProfiles /\ EmptyMaintenance /\ EmptyReference
    /\ \E seed \in CreatedAutoservices :
          autoservices = seed.autoservices /\ autoservice_users = seed.users
    /\ service = "AutoserviceController"
    /\ pending = EmptyBag
    /\ now = ImportTime
    /\ blacklist_store = EmptyTable
    /\ \E u \in Uids : cookies = [k \in {jwt_token_cookie_key} |-> u]
    /\ result = NoResult

NextOwner ==
    \/ \E i \in AutoserviceIds : GetAutoserviceById(i)
    \/ \E body \in AutoservicePostBodies : PostAutoservice(body)
    \/ \E body \in AutoservicePostBodies : PostAutoserviceOwnerRefused(body)
    \/ \E i \in AutoserviceIds, body \in AutoservicePatchBodies : PatchAutoserviceById(i, body)

SpecOwner == InitOwner /\ [][NextOwner]_vars

\* The creates and the patches of the three services, each service over its
\* own tables.  The customer and mechanic records given to them carry an id
\* and a uid.
InitPatch == Init \/ InitAutoservice

CustomersWithUid == {c \in CustomerEntities : c.uid # None}
MechanicsWithUid == {m \in MechanicEntities : m.uid # None /\ m.description # None}

NextPatch ==
    \/ \E u \in Uids, c \in CustomersWithUid : CreateCustomer(u, c)
    \/ \E u \in Uids, i \in CustomerIds, c \in CustomersWithUid : PatchCustomer(u, i, c)
    \/ \E u \in Uids, m \in MechanicsWithUid : CreateMechanic(u, m)
    \/ \E u \in Uids, i \in MechanicIds, m \in MechanicsWithUid : PatchMechanic(u, i, m)
    \/ \E u \in Uids, a \in NewAutoservices : CreateAutoservice(u, a)
    \/ \E u \in Uids, i \in AutoserviceIds, a \in ChangedAutoservices : PatchAutoservice(u, i, a)

SpecPatch == InitPatch /\ [][NextPatch]_vars

\* The next request is one to another service.
RequestTo(other) ==
    /\ service # other
    /\ service' = other
    /\ UNCHANGED <<store, pending, cookies, now, blacklist_store, result>>

\* The maintenance handlers, with patch_mechanic and patch_autoservice calls
\* between their requests, over the worlds of InitMaintenance.
NextOwnership ==
    \/ \E other \in {"MaintenanceController", "MechanicService", "AutoserviceService"} : RequestTo(other)
    \/ \E u \in Uids, data \in NewProvidedMaintenance :
          provided_maintenance = EmptyTable /\ CreateProvidedMaintenance(u, data)
    \/ \E u \in Uids, data \in NewCountryAssociations : CreateCountryAssociation(u, data)
    \/ \E u \in Uids, data \in NewVehicleBrandAssociations : CreateVehicleBrandAssociation(u, data)
    \/ \E u \in Uids, i \in MechanicIds, m \in MechanicsWithUid : PatchMechanic(u, i, m)
    \/ \E u \in Uids, i \in AutoserviceIds, a \in ChangedAutoservices : PatchAutoservice(u, i, a)

SpecOwnership == InitMaintenance /\ [][NextOwnership]_vars

\* The three creates, of records that have no id and no created_at and every
\* column their table demands, while time passes.
NextCreatedAt ==
    \/ Tick
    \/ \E u \in Uids, c \in NewCustomers : CreateCustomer(u, WithCreatedAt(c))
    \/ \E u \in Uids, m \in NewMechanics : CreateMechanic(u, WithCreatedAt(m))
    \/ \E u \in Uids : CreateAutoservice(u, WithCreatedAt(AutoserviceEntity(None, AutoserviceA)))
    \/ \E u \in Uids : CreateAutoservice(u, WithCreatedAt(AutoserviceEntity(None, AutoserviceB)))

SpecCreatedAt == InitPatch /\ [][NextCreatedAt]_vars

\* Requests with a token, while tokens are revoked, over an empty blacklist.
InitAuth ==
    /\ EmptyProfiles /\ EmptyAutoservices /\ EmptyMaintenance /\ EmptyReference
    /\ service = "Authentication"
    /\ pending = EmptyBag
    /\ now = ImportTime
    /\ blacklist_store = EmptyTable
    /\ cookies = NoCookies
    /\ result = NoResult

NextAuth ==
    \/ \E jti \in Jtis, value \in BlacklistValues : Revoke(jti, value)
    \/ \E token \in Tokens : AuthenticateRequest(token)

SpecAuth == InitAuth /\ [][NextAuth]_vars
\* ------------------------------------------------------------------ claims
\* C1: patch_customer (resp. patch_mechanic) on a stored record whose uid is
\* not the requesting user's raises CustomerBelongsToAnotherUserError (resp.
\* MechanicBelongsToAnotherUserError) and leaves the table as it was; and a
\* stored Customer or Mechanic row changes only in a successful patch of that
\* very row issued by the user whose uid the row stores.
C1_OnlyOwnerPatches ==
    [][ /\ ( /\ result'.op = "patch_customer"
             /\ result'.id \in DOMAIN customers
             /\ customers[result'.id].uid # Some(result'.uid) )
           => /\ result'.err = "CustomerBelongsToAnotherUserError"
              /\ customers' = customers
        /\ ( /\ result'.op = "patch_mechanic"
             /\ result'.id \in DOMAIN mechanics
             /\ mechanics[result'.id].uid # Some(result'.uid) )
           => /\ result'.err = "MechanicBelongsToAnotherUserError"
              /\ mechanics' = mechanics
        /\ \A i \in DOMAIN customers \cap DOMAIN customers' :
              customers'[i] # customers[i]
                => /\ result'.op = "patch_customer" /\ result'.err = "ok"
                   /\ result'.id = i /\ Some(result'.uid) = customers[i].uid
        /\ \A i \in DOMAIN mechanics \cap DOMAIN mechanics' :
              mechanics'[i] # mechanics[i]
                => /\ result'.op = "patch_mechanic" /\ result'.err = "ok"
                   /\ result'.id = i /\ Some(result'.uid) = mechanics[i].uid
      ]_vars

\* A patch of another user's customer has been refused, the customer being
\* stored with the profile it was created with.
C1_Witness ==
    /\ result.op = "patch_customer"
    /\ result.err = "CustomerBelongsToAnotherUserError"
    /\ result.id \in DOMAIN customers
    /\ customers[result.id].uid # Some(result.uid)

\* C2: patch_autoservice on a stored autoservice changes it only if an
\* AutoserviceUser row (requesting uid, that autoservice_id) exists and holds
\* autoservice:manage; with no such row it raises AutoserviceUserNotFoundError,
\* with a row lacking the permission AutoserviceUserDoesntHavePermissionsError,
\* and the autoservice is unchanged in both cases; rows of other autoservices
\* do not count.  No other call changes a stored autoservice.
C2_PatchNeedsManage ==
    [][ /\ ( result'.op = "patch_autoservice" /\ result'.id \in DOMAIN autoservices )
           => LET rows == {r \in BagToSet(autoservice_users) :
                             r.uid = result'.uid /\ r.autoservice_id = result'.id}
              IN  /\ rows = {}
                       => /\ result'.err = "AutoserviceUserNotFoundError"
                          /\ autoservices' = autoservices
                  /\ ( rows # {} /\ \A r \in rows : autoservice_manage \notin r.permissions )
                       => /\ result'.err = "AutoserviceUserDoesntHavePermissionsError"
                          /\ autoservices' = autoservices
        /\ \A i \in DOMAIN autoservices \cap DOMAIN autoservices' :
              autoservices'[i] # autoservices[i]
                => /\ result'.op = "patch_autoservice" /\ result'.id = i /\ result'.err = "ok"
                   /\ \E r \in BagToSet(autoservice_users) :
                         /\ r.uid = result'.uid /\ r.autoservice_id = i
                         /\ autoservice_manage \in r.permissions
      ]_vars

\* A patch was refused for want of a row although the requester holds
\* autoservice:manage on another autoservice.
C2_Witness ==
    /\ result.op = "patch_autoservice"
    /\ result.err = "AutoserviceUserNotFoundError"
    /\ result.id \in DOMAIN autoservices
    /\ \E r \in BagToSet(autoservice_users) :
          /\ r.uid = result.uid /\ r.autoservice_id # result.id
          /\ autoservice_manage \in r.permissions

\* C3: the two permissions are independent: a user whose row holds only
\* autoservice:manage_provided_maintenance cannot patch the autoservice; a
\* user whose row holds only autoservice:manage fails
\* validate_autoservice_manage_provided_maintenance_permissions with
\* AutoserviceUserDoesntHavePermissionsError, a user with no row fails it with
\* AutoserviceUserNotFoundError.
C3_PermissionsIndependent ==
    [][ LET rows == {r \in BagToSet(autoservice_users) :
                       r.uid = result'.uid /\ r.autoservice_id = result'.id}
        IN  /\ ( /\ result'.op = "patch_autoservice"
                 /\ result'.id \in DOMAIN autoservices
                 /\ \E r \in rows : r.permissions = {autoservice_manage_provided_maintenance} )
               => /\ result'.err = "AutoserviceUserDoesntHavePermissionsError"
                  /\ autoservices' = autoservices
            /\ ( /\ result'.op = "validate_autoservice_manage_provided_maintenance_permissions"
                 /\ \E r \in rows : r.permissions = {autoservice_manage} )
               => result'.err = "AutoserviceUserDoesntHavePermissionsError"
            /\ ( /\ result'.op = "validate_autoservice_manage_provided_maintenance_permissions"
                 /\ rows = {} )
               => result'.err = "AutoserviceUserNotFoundError"
      ]_vars

\* The validation has refused a user who holds autoservice:manage alone.
C3_Witness ==
    /\ result.op = "validate_autoservice_manage_provided_maintenance_permissions"
    /\ result.err = "AutoserviceUserDoesntHavePermissionsError"
    /\ \E r \in BagToSet(autoservice_users) :
          /\ r.uid = result.uid /\ r.autoservice_id = result.id
          /\ r.permissions = {autoservice_manage}

\* C5: after a successful create_autoservice(autoservice, user) the store
\* holds the autoservice under the id it was given and exactly one
\* AutoserviceUser row (user.uid, that id), whose permissions are the full set;
\* the creator's next patch_autoservice and permission validation succeed.
C5_CreatorOwns ==
    ( result.op = "create_autoservice" /\ result.err = "ok" )
      => LET a == Val(result.ret)
             id == Val(a.autoservice_id)
             rows == {r \in BagToSet(autoservice_users) :
                        r.uid = result.uid /\ r.autoservice_id = id}
         IN  /\ id = result.id
             /\ id \in DOMAIN autoservices
             /\ Load(autoservices, id, "autoservice_id") = a
             /\ Cardinality(rows) = 1
             /\ \A r \in rows :
                   /\ autoservice_users[r] = 1
                   /\ r.permissions =
                        {"autoservice:manage", "autoservice:manage_provided_maintenance"}
             /\ \A c \in ChangedAutoservices :
                   patch_autoservice(autoservices, autoservice_users, id, result.uid, c).err = "ok"
             /\ validate_autoservice_manage_provided_maintenance_permissions(
                    autoservice_users, a, result.uid).err = "ok"

\* An autoservice has been created next to a stored one.
C5_Witness ==
    /\ result.op = "create_autoservice"
    /\ result.err = "ok"
    /\ Cardinality(DOMAIN autoservices) > 1


\* C4: for each of the ten entity services, lookup-by-id returns the stored
\* record with that id when there is one and raises the entity's NotFound
\* error when there is none, and no lookup changes the store.
C4_LookupByIdReads ==
    [][ LET Looks(op, table, key, missing) ==
                result'.op = op =>
                    /\ result'.id \in DOMAIN table =>
                          /\ result'.err = "ok"
                          /\ \E e \in result'.ret :
                                /\ DOMAIN e = DOMAIN table[result'.id] \cup {key}
                                /\ e[key] = Some(result'.id)
                                /\ \A a \in DOMAIN table[result'.id] : e[a] = table[result'.id][a]
                    /\ result'.id \notin DOMAIN table =>
                          /\ result'.err = missing
                          /\ result'.ret = None
                    /\ store' = store
        IN  /\ Looks("get_customer_by_customer_id", customers, "customer_id", "CustomerNotFoundError")
            /\ Looks("get_mechanic_by_mechanic_id", mechanics, "mechanic_id", "MechanicNotFoundError")
            /\ Looks("get_autoservice_by_autoservice_id", autoservices, "autoservice_id",
                     "AutoserviceNotFoundError")
            /\ Looks("get_vehicle_by_vehicle_id", vehicles, "vehicle_id", "VehicleNotFoundError")
            /\ Looks("get_provided_maintenance_by_provided_maintenance_id", provided_maintenance,
                     "provided_maintenance_id", "ProvidedMaintenanceNotFoundError")
            /\ Looks("get_provided_maintenance_type_by_provided_maintenance_id",
                     provided_maintenance_types, "provided_maintenance_type_id",
                     "ProvidedMaintenanceTypeNotFoundError")
            /\ Looks("get_country_by_country_id", countries, "country_id", "CountryNotFoundError")
            /\ Looks("get_vehicle_brand_by_vehicle_brand_id", vehicle_brands, "vehicle_brand_id",
                     "VehicleBrandNotFoundError")
            /\ Looks("get_vehicle_model_by_vehicle_model_id", vehicle_models, "vehicle_model_id",
                     "VehicleModelNotFoundError")
            /\ Looks("get_vehicle_generation_by_vehicle_generation_id", vehicle_generations,
                     "vehicle_generation_id", "VehicleGenerationNotFoundError")
      ]_vars

\* A country that is not stored has been looked up in a table that stores
\* another one.
C4_Witness ==
    /\ result.op = "get_country_by_country_id"
    /\ result.err = "CountryNotFoundError"
    /\ countries # EmptyTable
    /\ result.id \notin DOMAIN countries

\* C6: every stored ProvidedMaintenance has mechanic_id or autoservice_id set,
\* and a create_provided_maintenance request with both null stores nothing.
C6_MechanicOrAutoservice ==
    /\ [](\A i \in DOMAIN provided_maintenance :
             \/ provided_maintenance[i].mechanic_id # None
             \/ provided_maintenance[i].autoservice_id # None)
    /\ [][ ( /\ result'.op = "create_provided_maintenance"
             /\ result'.req.mechanic_id = None
             /\ result'.req.autoservice_id = None )
           => provided_maintenance' = provided_maintenance
         ]_vars

\* A request that names neither a mechanic nor an autoservice, and whose type
\* exists, has been refused by the insert, next to a stored maintenance.
C6_Witness ==
    /\ result.op = "create_provided_maintenance"
    /\ result.req.mechanic_id = None
    /\ result.req.autoservice_id = None
    /\ result.err = "IntegrityError"
    /\ provided_maintenance # EmptyTable

\* C7: create_provided_maintenance stores a ProvidedMaintenance only if its
\* type exists, a referenced mechanic exists and is the requesting user's, and
\* a referenced autoservice exists and the user holds
\* autoservice:manage_provided_maintenance on it; otherwise it raises the error
\* of a condition that fails and stores nothing.
C7_CreateChecksReferences ==
    [][ result'.op = "create_provided_maintenance" =>
          LET req == result'.req
              uid == result'.uid
              Rows(a) == {r \in BagToSet(autoservice_users) : r.uid = uid /\ r.autoservice_id = a}
              typeMissing ==
                  \A t \in req.provided_maintenance_type_id : t \notin DOMAIN provided_maintenance_types
              mechanicMissing == \E m \in req.mechanic_id : m \notin DOMAIN mechanics
              mechanicOfAnother ==
                  \E m \in req.mechanic_id : m \in DOMAIN mechanics /\ mechanics[m].uid # Some(uid)
              autoserviceMissing == \E a \in req.autoservice_id : a \notin DOMAIN autoservices
              noRow == \E a \in req.autoservice_id : a \in DOMAIN autoservices /\ Rows(a) = {}
              noPermission ==
                  \E a \in req.autoservice_id :
                      /\ a \in DOMAIN autoservices
                      /\ Rows(a) # {}
                      /\ \A r \in Rows(a) : "autoservice:manage_provided_maintenance" \notin r.permissions
              raised ==
                  {e \in {"ProvidedMaintenanceTypeNotFoundError", "MechanicNotFoundError",
                          "MechanicBelongsToAnotherUserError", "AutoserviceNotFoundError",
                          "AutoserviceUserNotFoundError", "AutoserviceUserDoesntHavePermissionsError"} :
                     \/ e = "ProvidedMaintenanceTypeNotFoundError" /\ typeMissing
                     \/ e = "MechanicNotFoundError" /\ mechanicMissing
                     \/ e = "MechanicBelongsToAnotherUserError" /\ mechanicOfAnother
                     \/ e = "AutoserviceNotFoundError" /\ autoserviceMissing
                     \/ e = "AutoserviceUserNotFoundError" /\ noRow
                     \/ e = "AutoserviceUserDoesntHavePermissionsError" /\ noPermission}
          IN  /\ raised # {} => /\ result'.err \in raised
                                /\ provided_maintenance' = provided_maintenance
              /\ provided_maintenance' # provided_maintenance =>
                    /\ raised = {}
                    /\ result'.err = "ok"
                    /\ result'.id \notin DOMAIN provided_maintenance
                    /\ DOMAIN provided_maintenance' = DOMAIN provided_maintenance \cup {result'.id}
                    /\ \A a \in DOMAIN req \ {"provided_maintenance_id"} :
                          provided_maintenance'[result'.id][a] = req[a]
      ]_vars

\* A user has been refused a maintenance for another user's mechanic, next
\* to a maintenance that is stored.
C7_Witness ==
    /\ result.op = "create_provided_maintenance"
    /\ result.err = "MechanicBelongsToAnotherUserError"
    /\ result.status = 403
    /\ provided_maintenance # EmptyTable

\* C8: the two association methods store an association only if the
\* ProvidedMaintenance exists, the requesting user owns its mechanic (when
\* mechanic_id is set) and holds autoservice:manage_provided_maintenance on its
\* autoservice (when autoservice_id is set), and the country / vehicle brand
\* exists; a request of a user who is not the owner stores nothing.
C8_OnlyOwnerAssociates ==
    [][ LET req == result'.req
            uid == result'.uid
            maintenance == provided_maintenance[req.provided_maintenance_id]
            owner ==
                /\ req.provided_maintenance_id \in DOMAIN provided_maintenance
                /\ \A m \in maintenance.mechanic_id :
                      m \in DOMAIN mechanics /\ mechanics[m].uid = Some(uid)
                /\ \A a \in maintenance.autoservice_id :
                      /\ a \in DOMAIN autoservices
                      /\ \E r \in BagToSet(autoservice_users) :
                            /\ r.uid = uid /\ r.autoservice_id = a
                            /\ "autoservice:manage_provided_maintenance" \in r.permissions
        IN  /\ country_associations' # country_associations =>
                  /\ result'.op = "create_provided_maintenance_country_association"
                  /\ owner
                  /\ req.country_id \in DOMAIN countries
                  /\ country_associations' = country_associations (+) SetToBag({req})
            /\ vehicle_brand_associations' # vehicle_brand_associations =>
                  /\ result'.op = "create_provided_maintenance_vehicle_brand_association"
                  /\ owner
                  /\ req.vehicle_brand_id \in DOMAIN vehicle_brands
                  /\ vehicle_brand_associations' = vehicle_brand_associations (+) SetToBag({req})
            /\ ( /\ result'.op \in {"create_provided_maintenance_country_association",
                                    "create_provided_maintenance_vehicle_brand_association"}
                 /\ ~owner )
               => /\ result'.err # "ok"
                  /\ UNCHANGED <<country_associations, vehicle_brand_associations>>
      ]_vars

\* A user who is not its owner has been refused a country for a maintenance
\* to which the owner has attached one.
C8_Witness ==
    /\ result.op = "create_provided_maintenance_country_association"
    /\ result.err \in {"MechanicBelongsToAnotherUserError", "AutoserviceUserNotFoundError",
                       "AutoserviceUserDoesntHavePermissionsError"}
    /\ \E r \in BagToSet(country_associations) :
          r.provided_maintenance_id = result.req.provided_maintenance_id

\* C9: an authorised request to attach a country (resp. vehicle brand) for a
\* pair that is already stored raises
\* ProvidedMaintenanceCountryAssociationAlreadyExistsError (resp.
\* ProvidedMaintenanceVehicleBrandAssociationAlreadyExistsError), is answered
\* with HTTP 409, and leaves the associations as they were.
C9_DuplicateIsConflict ==
    [][ LET req == result'.req
            uid == result'.uid
            maintenance == provided_maintenance[req.provided_maintenance_id]
            authorised ==
                /\ req.provided_maintenance_id \in DOMAIN provided_maintenance
                /\ \A m \in maintenance.mechanic_id :
                      m \in DOMAIN mechanics /\ mechanics[m].uid = Some(uid)
                /\ \A a \in maintenance.autoservice_id :
                      /\ a \in DOMAIN autoservices
                      /\ \E r \in BagToSet(autoservice_users) :
                            /\ r.uid = uid /\ r.autoservice_id = a
                            /\ "autoservice:manage_provided_maintenance" \in r.permissions
        IN  /\ ( /\ result'.op = "create_provided_maintenance_country_association"
                 /\ authorised
                 /\ req.country_id \in DOMAIN countries
                 /\ \E r \in BagToSet(country_associations) :
                       /\ r.provided_maintenance_id = req.provided_maintenance_id
                       /\ r.country_id = req.country_id )
               => /\ result'.err = "ProvidedMaintenanceCountryAssociationAlreadyExistsError"
                  /\ result'.status = 409
                  /\ UNCHANGED <<country_associations, vehicle_brand_associations>>
            /\ ( /\ result'.op = "create_provided_maintenance_vehicle_brand_association"
                 /\ authorised
                 /\ req.vehicle_brand_id \in DOMAIN vehicle_brands
                 /\ \E r \in BagToSet(vehicle_brand_associations) :
                       /\ r.provided_maintenance_id = req.provided_maintenance_id
                       /\ r.vehicle_brand_id = req.vehicle_brand_id )
               => /\ result'.err = "ProvidedMaintenanceVehicleBrandAssociationAlreadyExistsError"
                  /\ result'.status = 409
                  /\ UNCHANGED <<country_associations, vehicle_brand_associations>>
      ]_vars

\* The owner's second request for a stored (maintenance, country) pair has
\* been answered with 409.
C9_Witness ==
    /\ result.op = "create_provided_maintenance_country_association"
    /\ result.status = 409
    /\ result.req \in BagToSet(country_associations)
    /\ country_associations[result.req] = 1

\* C10: however concurrent association requests for one pair interleave (both
\* may pass the existence check before either inserts), at most one row of
\* that pair is stored, in either association table.
C10_AtMostOneRowPerPair ==
    /\ \A p \in ProvidedMaintenanceIds, c \in CountryIds :
          LET rows == {r \in BagToSet(country_associations) :
                         r.provided_maintenance_id = p /\ r.country_id = c}
          IN  /\ Cardinality(rows) <= 1
              /\ \A r \in rows : country_associations[r] = 1
    /\ \A p \in ProvidedMaintenanceIds, b \in VehicleBrandIds :
          LET rows == {r \in BagToSet(vehicle_brand_associations) :
                         r.provided_maintenance_id = p /\ r.vehicle_brand_id = b}
          IN  /\ Cardinality(rows) <= 1
              /\ \A r \in rows : vehicle_brand_associations[r] = 1

\* Of two requests for one pair that both passed the existence check, the
\* second to insert has been refused by the primary key.
C10_Witness ==
    /\ result.op = "create_provided_maintenance_country_association"
    /\ result.err = "IntegrityError"
    /\ result.req \in BagToSet(country_associations)


\* C11: every Vehicle stored through create_vehicle references a stored brand,
\* model, generation and customer, with the model's vehicle_brand_id equal to
\* the vehicle's brand id and the generation's vehicle_model_id equal to the
\* vehicle's model id; create_vehicle with a model of another brand raises
\* VehicleModelDoesntMatchWithVehicleBrandError, with a generation of another
\* model raises VehicleGenerationDoesntMatchWithVehicleModelError, and stores
\* nothing in either case.
C11_VehicleChainConsistent ==
    /\ [](\A v \in DOMAIN vehicles :
             LET b == Val(vehicles[v].vehicle_brand_id)
                 m == Val(vehicles[v].vehicle_model_id)
                 g == Val(vehicles[v].vehicle_generation_id)
                 c == Val(vehicles[v].customer_id)
             IN  /\ b \in DOMAIN vehicle_brands
                 /\ m \in DOMAIN vehicle_models
                 /\ g \in DOMAIN vehicle_generations
                 /\ c \in DOMAIN customers
                 /\ vehicle_models[m].vehicle_brand_id = Some(b)
                 /\ vehicle_generations[g].vehicle_model_id = Some(m))
    /\ [][ result'.op = "create_vehicle" =>
             LET b == Val(result'.req.vehicle_brand_id)
                 m == Val(result'.req.vehicle_model_id)
                 g == Val(result'.req.vehicle_generation_id)
                 modelOfAnotherBrand ==
                     /\ b \in DOMAIN vehicle_brands
                     /\ m \in DOMAIN vehicle_models
                     /\ vehicle_models[m].vehicle_brand_id # Some(b)
                 generationOfAnotherModel ==
                     /\ b \in DOMAIN vehicle_brands
                     /\ m \in DOMAIN vehicle_models
                     /\ vehicle_models[m].vehicle_brand_id = Some(b)
                     /\ g \in DOMAIN vehicle_generations
                     /\ vehicle_generations[g].vehicle_model_id # Some(m)
             IN  /\ modelOfAnotherBrand =>
                       /\ result'.err = "VehicleModelDoesntMatchWithVehicleBrandError"
                       /\ vehicles' = vehicles
                 /\ generationOfAnotherModel =>
                       /\ result'.err = "VehicleGenerationDoesntMatchWithVehicleModelError"
                       /\ vehicles' = vehicles
         ]_vars

\* A vehicle whose generation is of another model than its stored model has
\* been refused.
C11_Witness ==
    /\ result.op = "create_vehicle"
    /\ result.err = "VehicleGenerationDoesntMatchWithVehicleModelError"
    /\ Val(result.req.vehicle_model_id) \in DOMAIN vehicle_models
    /\ Val(result.req.vehicle_generation_id) \in DOMAIN vehicle_generations
    /\ vehicles = EmptyTable

\* C12: the response to a successful POST that creates (or returns the
\* existing) customer, mechanic or autoservice sets the identity cookie of
\* that kind to the returned entity's id and deletes the other two identity
\* cookies, so that the client that applies the response holds exactly one
\* identity cookie, that of the entity the most recent create returned.
C12_CookieOfLastCreate ==
    [][ \A kind \in {"customer_id", "mechanic_id", "autoservice_id"} :
          ( /\ result'.op = CASE kind = "customer_id" -> "POST /customers"
                              [] kind = "mechanic_id" -> "POST /mechanics"
                              [] kind = "autoservice_id" -> "POST /autoservices"
            /\ result'.err = "ok" )
          => /\ DOMAIN cookies' \cap {"customer_id", "mechanic_id", "autoservice_id"} = {kind}
             /\ cookies'[kind] = Str(result'.id)
      ]_vars

\* A second autoservice has been created by a client that held the identity
\* cookie of its first one.
C12_SecondAutoservice ==
    /\ result.op = "POST /autoservices"
    /\ result.err = "ok"
    /\ result.id = 2
    /\ "autoservice_id" \in DOMAIN cookies

\* The domain errors (the subclasses of BaseCustomError) the services of the
\* four controllers raise, by what the handlers are to answer.
NotFoundErrors ==
    {"CustomerNotFoundError", "MechanicNotFoundError", "AutoserviceNotFoundError",
     "ProvidedMaintenanceTypeNotFoundError", "ProvidedMaintenanceNotFoundError",
     "CountryNotFoundError", "VehicleBrandNotFoundError"}
OwnershipErrors == PermissionErrors \cup {"CustomerBelongsToAnotherUserError"}
DuplicateErrors ==
    {"ProvidedMaintenanceCountryAssociationAlreadyExistsError",
     "ProvidedMaintenanceVehicleBrandAssociationAlreadyExistsError"}

\* C13: whatever the stored state, a domain error that the service call of a
\* handler of the customer, mechanic, autoservice or maintenance controller
\* raises is answered with the status of its kind: 404 for a NotFound error,
\* 403 for an ownership or permission error, 409 for a duplicate association;
\* none leaves a handler untranslated.  The association handlers name neither
\* MechanicNotFoundError nor AutoserviceNotFoundError, and their owner check
\* never raises them: the mechanic and the autoservice of a stored
\* maintenance are stored.
C13_DomainErrorsTranslated ==
    [][ /\ result'.err \in NotFoundErrors => result'.status = HTTP_404_NOT_FOUND
        /\ result'.err \in OwnershipErrors => result'.status = HTTP_403_FORBIDDEN
        /\ result'.err \in DuplicateErrors => result'.status = HTTP_409_CONFLICT
        /\ result'.op \in {"create_provided_maintenance_country_association",
                           "create_provided_maintenance_vehicle_brand_association"} =>
              result'.err \notin {"MechanicNotFoundError", "AutoserviceNotFoundError"}
      ]_vars

\* The owner check of an association handler has refused a user who does
\* not own the mechanic of the maintenance, and the answer is 403.
C13_Witness ==
    /\ result.op = "create_provided_maintenance_country_association"
    /\ result.err = "MechanicBelongsToAnotherUserError"
    /\ result.status = HTTP_403_FORBIDDEN
    /\ result.id \in DOMAIN provided_maintenance

\* C14: every stored Customer and every stored Mechanic has a name of 2 to
\* 150 characters, and a POST or PATCH whose body carries a name shorter
\* than 2 or longer than 150 characters is refused and stores nothing.
C14_StoredNamesWithinLimits ==
    /\ [](/\ \A i \in DOMAIN customers : Len(Val(customers[i].name)) \in 2..150
          /\ \A i \in DOMAIN mechanics : Len(Val(mechanics[i].name)) \in 2..150)
    /\ [][ ( /\ result'.op \in {"POST /customers", "PATCH /customers/{customer_id}",
                                "POST /mechanics", "PATCH /mechanics/{mechanic_id}"}
             /\ result'.req.name # None
             /\ Len(Val(result'.req.name)) \notin 2..150 )
           => /\ result'.err = "ClientException"
              /\ result'.status = 400
              /\ store' = store
         ]_vars

\* The owner of a stored mechanic has asked for a name of 151 characters
\* and has been refused.
C14_Witness ==
    /\ result.op = "PATCH /mechanics/{mechanic_id}"
    /\ result.id \in DOMAIN mechanics
    /\ mechanics[result.id].uid = Some(result.uid)
    /\ result.req.name # None
    /\ Len(Val(result.req.name)) = 151
    /\ result.err = "ClientException"

\* C15: every stored Autoservice has an itn of exactly 10 or exactly 12
\* digits and a psrn of exactly 13 digits: a write with any other itn (11
\* digits, a character that is not a digit) or psrn is refused.
C15_StoredItnPsrnDigits ==
    \A i \in DOMAIN autoservices :
        /\ \E n \in {10, 12} :
              /\ Len(Val(autoservices[i].itn)) = n
              /\ \A k \in 1..n : SubSeq(Val(autoservices[i].itn), k, k) \in Digits
        /\ Len(Val(autoservices[i].psrn)) = 13
        /\ \A k \in 1..13 : SubSeq(Val(autoservices[i].psrn), k, k) \in Digits

\* An itn of 11 digits has been refused.
C15_Witness ==
    /\ result.op = "POST /autoservices"
    /\ result.req.itn = Some("12345678901")
    /\ result.err = "ClientException"
    /\ result.status = 400

\* C16: patch_customer, patch_mechanic and patch_autoservice called, by any
\* user, with an id no stored record has raise CustomerNotFoundError,
\* MechanicNotFoundError and AutoserviceNotFoundError (the record is looked
\* up before the requester is compared with its owner or managers), and
\* nothing is stored.  The service is called whenever the validators accept
\* the body.
C16_PatchOfMissingIdNotFound ==
    [][ /\ ( /\ result'.op = "PATCH /customers/{customer_id}"
             /\ result'.err # "ClientException"
             /\ result'.id \notin DOMAIN customers )
           => result'.err = "CustomerNotFoundError" /\ store' = store
        /\ ( /\ result'.op = "PATCH /mechanics/{mechanic_id}"
             /\ result'.err # "ClientException"
             /\ result'.id \notin DOMAIN mechanics )
           => result'.err = "MechanicNotFoundError" /\ store' = store
        /\ ( /\ result'.op = "PATCH /autoservices/{autoservice_id}"
             /\ result'.err # "ClientException"
             /\ result'.id \notin DOMAIN autoservices )
           => result'.err = "AutoserviceNotFoundError" /\ store' = store
      ]_vars

\* A user who may patch no autoservice has patched an id that no
\* autoservice has, while another autoservice is stored.
C16_Witness ==
    /\ result.op = "PATCH /autoservices/{autoservice_id}"
    /\ result.err = "AutoserviceNotFoundError"
    /\ result.id \notin DOMAIN autoservices
    /\ autoservices # EmptyTable
    /\ \A r \in BagToSet(autoservice_users) :
          r.uid = result.uid => autoservice_manage \notin r.permissions

\* C17: create_customer (create_mechanic) for a user who has no customer
\* (mechanic) yet, given a record the table can take, stores that record
\* under the record's own id with the uid of the requesting user, whatever
\* uid the record carried, and returns the stored record.
C17_CreateStoresSubmittedRecord ==
    [][ /\ \A u \in Uids, c \in CustomerEntities :
              ( /\ result'.op = "create_customer" /\ result'.uid = u
                /\ CreateCustomer(u, c)
                /\ \A k \in DOMAIN customers : customers[k].uid # Some(u)
                /\ c.name # None
                /\ c.customer_id # None => Val(c.customer_id) \notin DOMAIN customers )
              => /\ result'.err = "ok"
                 /\ result'.id \notin DOMAIN customers
                 /\ c.customer_id \in {None, Some(result'.id)}
                 /\ customers' = [k \in DOMAIN customers \cup {result'.id} |->
                        IF k = result'.id
                        THEN [uid |-> Some(u), name |-> c.name, city |-> c.city]
                        ELSE customers[k]]
                 /\ result'.ret = Some([customer_id |-> Some(result'.id), uid |-> Some(u),
                                        name |-> c.name, city |-> c.city])
        /\ \A u \in Uids, m \in MechanicEntities :
              ( /\ result'.op = "create_mechanic" /\ result'.uid = u
                /\ CreateMechanic(u, m)
                /\ \A k \in DOMAIN mechanics : mechanics[k].uid # Some(u)
                /\ \A a \in {"name", "city", "private", "mobile"} : m[a] # None
                /\ m.mechanic_id # None => Val(m.mechanic_id) \notin DOMAIN mechanics )
              => /\ result'.err = "ok"
                 /\ result'.id \notin DOMAIN mechanics
                 /\ m.mechanic_id \in {None, Some(result'.id)}
                 /\ DOMAIN mechanics' = DOMAIN mechanics \cup {result'.id}
                 /\ \A k \in DOMAIN mechanics : mechanics'[k] = mechanics[k]
                 /\ mechanics'[result'.id].uid = Some(u)
                 /\ \A a \in DOMAIN MechanicNothing : mechanics'[result'.id][a] = m[a]
                 /\ Val(result'.ret).mechanic_id = Some(result'.id)
                 /\ Val(result'.ret).uid = Some(u)
                 /\ \A a \in DOMAIN MechanicNothing : Val(result'.ret)[a] = m[a]
      ]_vars

\* User 2 has created customer 2 while the customer of user 1 was stored.
C17_Witness ==
    /\ result.op = "create_customer"
    /\ result.uid = 2
    /\ result.id = 2
    /\ result.err = "ok"
    /\ DOMAIN customers = {1, 2}
    /\ customers[1].uid = Some(1)
    /\ customers[2].uid = Some(2)

\* C18: a patch_customer (patch_mechanic) call by the owner of the record
\* succeeds, and the record it returns, which is the stored one, has every
\* patchable field that the request sets at the request's value and every
\* field that the request leaves null at its stored value: no field that
\* held a value is cleared.
C18_PatchAppliesNonNullFields ==
    [][ /\ ( /\ result'.op = "PATCH /customers/{customer_id}"
             /\ result'.err # "ClientException"
             /\ result'.id \in DOMAIN customers
             /\ customers[result'.id].uid = Some(result'.uid) )
           => /\ result'.err = "ok"
              /\ Val(result'.ret).customer_id = Some(result'.id)
              /\ \A a \in {"name", "city"} :
                    /\ Val(result'.ret)[a] =
                          IF result'.req[a] # None THEN result'.req[a] ELSE customers[result'.id][a]
                    /\ customers'[result'.id][a] = Val(result'.ret)[a]
                    /\ customers[result'.id][a] # None => customers'[result'.id][a] # None
        /\ ( /\ result'.op = "PATCH /mechanics/{mechanic_id}"
             /\ result'.err # "ClientException"
             /\ result'.id \in DOMAIN mechanics
             /\ mechanics[result'.id].uid = Some(result'.uid) )
           => /\ result'.err = "ok"
              /\ Val(result'.ret).mechanic_id = Some(result'.id)
              /\ \A a \in {"name", "description", "city", "address", "lon", "lat", "private", "mobile"} :
                    /\ Val(result'.ret)[a] =
                          IF result'.req[a] # None THEN result'.req[a] ELSE mechanics[result'.id][a]
                    /\ mechanics'[result'.id][a] = Val(result'.ret)[a]
                    /\ mechanics[result'.id][a] # None => mechanics'[result'.id][a] # None
      ]_vars

\* The owner of a mechanic has patched it with a request that sets the
\* description and leaves the name null, and the stored name is still
\* there.
C18_Witness ==
    /\ result.op = "PATCH /mechanics/{mechanic_id}"
    /\ result.err = "ok"
    /\ result.req.name = None
    /\ result.req.description # None
    /\ mechanics[result.id].name # None
    /\ mechanics[result.id].description = result.req.description

\* Whether the user owns the mechanic, and whether an AutoserviceUser row
\* grants the user autoservice:manage_provided_maintenance on the
\* autoservice.
OwnsMechanic(uid, mechanic_id) == mechanics[mechanic_id].uid = Some(uid)
MayManageProvidedMaintenance(uid, autoservice_id) ==
    \E r \in BagToSet(autoservice_users) :
        /\ r.uid = uid /\ r.autoservice_id = autoservice_id
        /\ "autoservice:manage_provided_maintenance" \in r.permissions

\* C19: for a ProvidedMaintenance that names both a mechanic and an
\* autoservice, create_provided_maintenance, and later the attachment of a
\* country or a vehicle brand, succeeds only for a user who owns the mechanic
\* and holds autoservice:manage_provided_maintenance on the autoservice: the
\* owner of the mechanic without the permission is refused, and so is the
\* holder of the permission who does not own the mechanic.
C19_BothChecksMustPass ==
    [][ /\ ( /\ result'.op = "create_provided_maintenance"
             /\ result'.req.mechanic_id # None /\ result'.req.autoservice_id # None
             /\ result'.err = "ok" )
           => /\ OwnsMechanic(result'.uid, Val(result'.req.mechanic_id))
              /\ MayManageProvidedMaintenance(result'.uid, Val(result'.req.autoservice_id))
        /\ ( /\ result'.op \in {"create_provided_maintenance_country_association",
                                "create_provided_maintenance_vehicle_brand_association"}
             /\ result'.err = "ok"
             /\ provided_maintenance[result'.id].mechanic_id # None
             /\ provided_maintenance[result'.id].autoservice_id # None )
           => /\ OwnsMechanic(result'.uid, Val(provided_maintenance[result'.id].mechanic_id))
              /\ MayManageProvidedMaintenance(result'.uid, Val(provided_maintenance[result'.id].autoservice_id))
      ]_vars

\* The owner of the mechanic, who lacks the permission on the autoservice,
\* has been refused the creation of a maintenance that names both.
C19_Witness ==
    /\ result.op = "create_provided_maintenance"
    /\ result.req.mechanic_id # None /\ result.req.autoservice_id # None
    /\ Val(result.req.mechanic_id) \in DOMAIN mechanics
    /\ OwnsMechanic(result.uid, Val(result.req.mechanic_id))
    /\ ~MayManageProvidedMaintenance(result.uid, Val(result.req.autoservice_id))
    /\ result.err = "AutoserviceUserDoesntHavePermissionsError"
    /\ provided_maintenance = EmptyTable

\* C20: create_vehicle stores a vehicle only when the customer it refers to
\* belongs to the requesting user (customer.uid is the user's uid): no user
\* attaches a vehicle to the customer of another user.
C20_VehicleOnlyForOwnCustomer ==
    [][ (result'.op = "create_vehicle" /\ vehicles' # vehicles)
        => \A i \in DOMAIN vehicles' \ DOMAIN vehicles :
              customers[Val(vehicles'[i].customer_id)].uid = Some(result'.uid)
      ]_vars

\* A user has stored a vehicle for their own customer.
C20_Witness ==
    /\ result.op = "create_vehicle"
    /\ result.err = "ok"
    /\ result.id \in DOMAIN vehicles
    /\ customers[Val(vehicles[result.id].customer_id)].uid = Some(result.uid)

\* C21: POST /vehicle answers 409 when the customer, the brand, the model or
\* the generation the body names is not stored, when the model is of another
\* brand and when the generation is of another model; it stores nothing
\* then, and it never answers 404.
C21_VehicleFailuresAnswered409 ==
    [][ result'.op = "create_vehicle" =>
          LET b == Val(result'.req.vehicle_brand_id)
              m == Val(result'.req.vehicle_model_id)
              g == Val(result'.req.vehicle_generation_id)
              c == Val(result'.req.customer_id)
              missing == \/ c \notin DOMAIN customers
                         \/ b \notin DOMAIN vehicle_brands
                         \/ m \notin DOMAIN vehicle_models
                         \/ g \notin DOMAIN vehicle_generations
              mismatch == \/ vehicle_models[m].vehicle_brand_id # Some(b)
                          \/ vehicle_generations[g].vehicle_model_id # Some(m)
          IN  /\ result'.status # 404
              /\ (missing \/ mismatch) => result'.status = 409 /\ vehicles' = vehicles
              /\ result'.err \in {"CustomerNotFoundError", "VehicleBrandNotFoundError",
                                  "VehicleModelNotFoundError", "VehicleGenerationNotFoundError",
                                  "VehicleModelDoesntMatchWithVehicleBrandError",
                                  "VehicleGenerationDoesntMatchWithVehicleModelError"}
                 => result'.status = 409
      ]_vars

\* A vehicle with a consistent chain has been refused with 409 because its
\* customer is not stored.
C21_Witness ==
    /\ result.op = "create_vehicle"
    /\ result.err = "CustomerNotFoundError"
    /\ result.status = 409
    /\ Val(result.req.vehicle_generation_id) \in DOMAIN vehicle_generations
    /\ Val(result.req.customer_id) \notin DOMAIN customers
    /\ customers # EmptyTable

\* C22: a POST /vehicle whose plate, white space removed and letters made
\* capital, matches one of the seven formats of validate_state_number (and
\* whose customer, brand, model and generation are stored and fit) is
\* accepted, and the vehicle is stored with the plate in that form.
C22_PlateOfAFormatAccepted ==
    [][ (/\ result'.op = "create_vehicle"
         /\ result'.req.state_number # None
         /\ \E k \in StateNumberFormats : MatchesFormat(Normalized(Val(result'.req.state_number)), k)
         /\ Val(result'.req.customer_id) \in DOMAIN customers
         /\ validate_vehicle_params(vehicle_brands, vehicle_models, vehicle_generations,
                                    Val(result'.req.vehicle_brand_id), Val(result'.req.vehicle_model_id),
                                    Val(result'.req.vehicle_generation_id)).err = "ok")
        => /\ result'.err = "ok"
           /\ result'.id \in DOMAIN vehicles'
           /\ vehicles'[result'.id].state_number = Some(Normalized(Val(result'.req.state_number)))
      ]_vars

\* A plate sent with small letters and white space is stored without the
\* white space and in capital letters.
C22_Witness ==
    /\ result.op = "create_vehicle"
    /\ result.err = "ok"
    /\ result.req.state_number = Some(Chars("a 123 bc 777"))
    /\ vehicles[result.id].state_number = Some(Chars("A123BC777"))

\* C23: a create_customer (create_mechanic) call of a user who has a
\* customer (mechanic) stores nothing, whatever record it is given, and
\* returns the stored record of that user as it is stored; so does every
\* repetition of the call.
C23_CreateIsIdempotentPerUser ==
    [][ /\ \A k \in DOMAIN customers :
              (result'.op = "create_customer" /\ customers[k].uid = Some(result'.uid))
              => /\ store' = store
                 /\ result'.err = "ok"
                 /\ Val(result'.ret).customer_id = Some(k)
                 /\ \A a \in DOMAIN customers[k] : Val(result'.ret)[a] = customers[k][a]
        /\ \A k \in DOMAIN mechanics :
              (result'.op = "create_mechanic" /\ mechanics[k].uid = Some(result'.uid))
              => /\ store' = store
                 /\ result'.err = "ok"
                 /\ Val(result'.ret).mechanic_id = Some(k)
                 /\ \A a \in DOMAIN mechanics[k] : Val(result'.ret)[a] = mechanics[k][a]
      ]_vars

\* A user who has the customer 1 called create_customer with a record of
\* another id, and got the customer 1 back; the other id is not stored.
C23_Witness ==
    /\ result.op = "create_customer"
    /\ result.err = "ok"
    /\ result.id \notin DOMAIN customers
    /\ Val(result.ret).customer_id = Some(1)
    /\ customers[1].uid = Some(result.uid)

\* C24: no two stored customers have the same uid and no two stored mechanics
\* have the same uid, in every state that create_customer (create_mechanic)
\* calls reach, however the calls of one user interleave between their
\* look-up and their insert.
C24_AtMostOneRecordPerUid ==
    /\ \A j, k \in DOMAIN customers : customers[j].uid = customers[k].uid => j = k
    /\ \A j, k \in DOMAIN mechanics : mechanics[j].uid = mechanics[k].uid => j = k

\* Two create_customer calls of one user were in flight together; the insert
\* of the first stored the customer, the insert of the second, of a record
\* with another id, was refused.
C24_Witness ==
    /\ result.op = "create_customer"
    /\ result.err = "IntegrityError"
    /\ result.id \notin DOMAIN customers
    /\ \E k \in DOMAIN customers : customers[k].uid = Some(result.uid)

\* C25: every stored autoservice has an AutoserviceUser row that holds
\* autoservice:manage; a step that stores an autoservice stores with it the
\* row of the user who sent the request, holding autoservice:manage, so a
\* request whose owner row is refused stores no autoservice; and no step
\* removes an AutoserviceUser row or changes its permissions.
C25_EveryAutoserviceHasItsOwner ==
    /\ [](\A i \in DOMAIN autoservices :
             \E r \in BagToSet(autoservice_users) :
                r.autoservice_id = i /\ autoservice_manage \in r.permissions)
    /\ [][ /\ \A i \in DOMAIN autoservices' \ DOMAIN autoservices :
                 \E r \in BagToSet(autoservice_users') :
                    /\ r.autoservice_id = i
                    /\ r.uid = RequestUser(cookies)
                    /\ autoservice_manage \in r.permissions
           /\ DOMAIN autoservices \subseteq DOMAIN autoservices'
           /\ \A r \in BagToSet(autoservice_users) :
                 CopiesIn(r, autoservice_users') >= CopiesIn(r, autoservice_users)
         ]_vars

\* The user 2 sent a POST /autoservices whose owner row the database refused:
\* the one stored autoservice is still the one that the user 1 created, with
\* the row of the user 1.
C25_Witness ==
    /\ result.op = "POST /autoservices"
    /\ result.err = "DBAPIError"
    /\ result.uid = 2
    /\ DOMAIN autoservices = {1}
    /\ BagToSet(autoservice_users) = {AutoserviceUser(1, 1, OwnerPermissions)}

\* C26: every step of the creates and the patches leaves every stored
\* customer under its customer_id with its uid, every stored mechanic
\* under its mechanic_id with its uid and every stored autoservice under its
\* autoservice_id; a successful patch returns the record of the id it was
\* called with.
C26_IdAndOwnerNeverChange ==
    [][ /\ \A k \in DOMAIN customers :
              k \in DOMAIN customers' /\ customers'[k].uid = customers[k].uid
        /\ \A k \in DOMAIN mechanics :
              k \in DOMAIN mechanics' /\ mechanics'[k].uid = mechanics[k].uid
        /\ DOMAIN autoservices \subseteq DOMAIN autoservices'
        /\ (result'.op = "patch_customer" /\ result'.err = "ok")
              => /\ Val(result'.ret).customer_id = Some(result'.id)
                 /\ DOMAIN customers' = DOMAIN customers
        /\ (result'.op = "patch_mechanic" /\ result'.err = "ok")
              => /\ Val(result'.ret).mechanic_id = Some(result'.id)
                 /\ DOMAIN mechanics' = DOMAIN mechanics
        /\ (result'.op = "patch_autoservice" /\ result'.err = "ok")
              => /\ Val(result'.ret).autoservice_id = Some(result'.id)
                 /\ DOMAIN autoservices' = DOMAIN autoservices
      ]_vars

\* The user 2 patched the customer 2, which is theirs, and the patch changed
\* the name: the customer is still the user 2's.
C26_Witness ==
    /\ result.op = "patch_customer"
    /\ result.err = "ok"
    /\ result.uid = 2
    /\ result.id = 2
    /\ customers[2].uid = Some(2)
    /\ customers[2].name = Some("Bob")
    /\ customers[2].city = Some("Omsk")

\* C27: a patch_autoservice call leaves the itn, the psrn, the address, the
\* lon and the lat of the stored autoservice as they were, whatever
\* changed_autoservice carries.
C27_PatchKeepsRegistrationAndPlace ==
    [][ (result'.op = "patch_autoservice" /\ result'.id \in DOMAIN autoservices)
        => \A a \in {"itn", "psrn", "address", "lon", "lat"} :
              autoservices'[result'.id][a] = autoservices[result'.id][a]
      ]_vars

\* The autoservice 1, stored with the lat 55, has the lat 56 of the
\* changed_autoservice after a patch_autoservice call, and its itn, psrn,
\* address and lon as before.
C27_Witness ==
    /\ result.op = "patch_autoservice"
    /\ result.err = "ok"
    /\ result.id = 1
    /\ autoservices[1].lat = Some(56)
    /\ autoservices[1].lon = Some(73)
    /\ autoservices[1].itn = Some("1234567890")
    /\ autoservices[1].address = Some("Lenina 1")

\* The owner check of a maintenance, over given tables: the user owns the
\* mechanic the maintenance names, and holds
\* autoservice:manage_provided_maintenance on the autoservice it names.
PassesOwnerCheck(mechs, users, uid, maintenance) ==
    /\ maintenance.mechanic_id # None => mechs[Val(maintenance.mechanic_id)].uid = Some(uid)
    /\ maintenance.autoservice_id # None =>
          \E r \in BagToSet(users) :
             /\ r.uid = uid /\ r.autoservice_id = Val(maintenance.autoservice_id)
             /\ autoservice_manage_provided_maintenance \in r.permissions

AssociationOps ==
    {"create_provided_maintenance_country_association",
     "create_provided_maintenance_vehicle_brand_association"}

\* C28: the user whose create_provided_maintenance succeeded passes the owner
\* check of the maintenance; a user who passes the owner check of a stored
\* maintenance passes it after every step, whatever the step is; and the
\* attachment of a country or a vehicle brand by such a user never fails with
\* MechanicBelongsToAnotherUserError, AutoserviceUserNotFoundError or
\* AutoserviceUserDoesntHavePermissionsError, and succeeds when the country or
\* brand is stored and not yet attached.
C28_CreatorKeepsPassingOwnerCheck ==
    [][ /\ provided_maintenance' # provided_maintenance
              => /\ result'.op = "create_provided_maintenance" /\ result'.err = "ok"
                 /\ DOMAIN provided_maintenance' \ DOMAIN provided_maintenance = {result'.id}
                 /\ PassesOwnerCheck(mechanics', autoservice_users', result'.uid,
                                     provided_maintenance'[result'.id])
        /\ \A u \in Uids, i \in DOMAIN provided_maintenance :
              PassesOwnerCheck(mechanics, autoservice_users, u, provided_maintenance[i])
              => /\ i \in DOMAIN provided_maintenance'
                 /\ PassesOwnerCheck(mechanics', autoservice_users', u, provided_maintenance'[i])
        /\ ( /\ result'.op \in AssociationOps
             /\ service = "MaintenanceController" /\ service' = service
             /\ result'.id \in DOMAIN provided_maintenance
             /\ PassesOwnerCheck(mechanics, autoservice_users, result'.uid,
                                 provided_maintenance[result'.id]) )
           => /\ result'.err \notin {"MechanicBelongsToAnotherUserError", "AutoserviceUserNotFoundError",
                                     "AutoserviceUserDoesntHavePermissionsError"}
              /\ ( /\ result'.op = "create_provided_maintenance_country_association"
                   /\ result'.req.country_id \in DOMAIN countries
                   /\ result'.req \notin BagToSet(country_associations) ) => result'.err = "ok"
              /\ ( /\ result'.op = "create_provided_maintenance_vehicle_brand_association"
                   /\ result'.req.vehicle_brand_id \in DOMAIN vehicle_brands
                   /\ result'.req \notin BagToSet(vehicle_brand_associations) ) => result'.err = "ok"
      ]_vars

\* The user 2 attached a country to the maintenance of the mechanic 1, which
\* is theirs, after a patch_mechanic call had changed the mechanic.
C28_Witness ==
    /\ result.op = "create_provided_maintenance_country_association"
    /\ result.err = "ok"
    /\ result.uid = 2
    /\ provided_maintenance[result.id].mechanic_id = Some(1)
    /\ mechanics[1].uid = Some(2)
    /\ mechanics[1].description = Some("engine")

\* C29: the record that a create_customer, create_mechanic or
\* create_autoservice call stores has the time of the call as its created_at.
C29_CreatedAtIsTheTimeOfTheRequest ==
    [][ /\ \A k \in DOMAIN customers' \ DOMAIN customers : customers'[k].created_at = Some(now)
        /\ \A k \in DOMAIN mechanics' \ DOMAIN mechanics : mechanics'[k].created_at = Some(now)
        /\ \A k \in DOMAIN autoservices' \ DOMAIN autoservices : autoservices'[k].created_at = Some(now)
      ]_vars

\* Two customers stored at different times have the same created_at, the
\* time at which the application started.
C29_Witness ==
    /\ result.op = "create_customer"
    /\ result.err = "ok"
    /\ now = 2
    /\ DOMAIN customers = {1, 2}
    /\ customers[1].created_at = Some(ImportTime)
    /\ customers[2].created_at = Some(ImportTime)

====
